---- MODULE Spec2Model ----
(***************************************************************************)
(* A model of the spreadsheet of KingCrimcode/RustSpreadsheets: the cell   *)
(* map of the grid, the editing handlers of the grid and of the formula    *)
(* bar, update_cell_display, and the formula engine (calculate).           *)
(*                                                                         *)
(* Text is modelled as a sequence of one-character strings, so that        *)
(* formatting and parsing are computed, not assumed. An f64 is modelled as *)
(* a rational [n, d] in lowest terms with d > 0 (exact for the integers    *)
(* and the short decimals the model computes with).                        *)
(***************************************************************************)
EXTENDS Integers, Sequences, FiniteSets, TLC

(***************************************************************************)
(* Bounds of the model.                                                    *)
(***************************************************************************)
\* Largest magnitude of a number a recompute may store (caps the growth of
\* self-referencing formulas recomputed again and again).
MaxVal == 12
\* Number of fractional digits f64's Display is followed for.
MaxFracDigits == 4
\* Deepest chain of pending recomputations the step-wise recompute follows.
MaxDepth == 4
\* Number of key presses that move the selection a behaviour follows.
MaxMoves == 2

(***************************************************************************)
(* Characters.                                                             *)
(***************************************************************************)
DigitChars == <<"0", "1", "2", "3", "4", "5", "6", "7", "8", "9">>
UpperChars == <<"A", "B", "C", "D", "E", "F", "G", "H", "I", "J", "K", "L", "M",
                "N", "O", "P", "Q", "R", "S", "T", "U", "V", "W", "X", "Y", "Z">>
LowerChars == <<"a", "b", "c", "d", "e", "f", "g", "h", "i", "j", "k", "l", "m",
                "n", "o", "p", "q", "r", "s", "t", "u", "v", "w", "x", "y", "z">>

Range(f) == {f[i] : i \in DOMAIN f}
IsDigit(c) == c \in Range(DigitChars)
IsUpper(c) == c \in Range(UpperChars)
IsLower(c) == c \in Range(LowerChars)
IsAlpha(c) == IsUpper(c) \/ IsLower(c)
IndexIn(seq, c) == CHOOSE i \in DOMAIN seq : seq[i] = c
DigitVal(c) == IndexIn(DigitChars, c) - 1

\* char::to_ascii_uppercase
to_ascii_uppercase(c) == IF IsLower(c) THEN UpperChars[IndexIn(LowerChars, c)] ELSE c

\* `c as i32` for the characters of the model's alphabet (ASCII codes).
OtherCodes == [c \in {" ", "#", "(", ")", "*", "+", ",", "-", ".", "/", ":", "=", "?", "!", "^",
                        "$", "@", "["} |->
                 CASE c = " " -> 32 [] c = "!" -> 33 [] c = "#" -> 35 [] c = "(" -> 40
                   [] c = ")" -> 41 [] c = "*" -> 42 [] c = "+" -> 43 [] c = "," -> 44
                   [] c = "-" -> 45 [] c = "." -> 46 [] c = "/" -> 47 [] c = ":" -> 58
                   [] c = "=" -> 61 [] c = "?" -> 63 [] c = "^" -> 94
                   [] c = "$" -> 36 [] c = "@" -> 64 [] c = "[" -> 91]
CharCode(c) ==
  IF IsUpper(c) THEN 64 + IndexIn(UpperChars, c)
  ELSE IF IsLower(c) THEN 96 + IndexIn(LowerChars, c)
  ELSE IF IsDigit(c) THEN 48 + DigitVal(c)
  ELSE OtherCodes[c]

(***************************************************************************)
(* Option and Result.                                                      *)
(***************************************************************************)
None == [some |-> FALSE]
Some(x) == [some |-> TRUE, v |-> x]
Ok(x) == [ok |-> TRUE, val |-> x]
Err(e) == [ok |-> FALSE, err |-> e]

\* let v = ..; F(v)
Let(v, F(_)) == F(v)

(***************************************************************************)
(* f64 arithmetic on rationals.                                            *)
(***************************************************************************)
Abs(x) == IF x < 0 THEN -x ELSE x

RECURSIVE Gcd(_, _)
Gcd(a, b) == IF b = 0 THEN a ELSE Gcd(b, a % b)

Rat(n, d) ==
  Let(Gcd(Abs(n), Abs(d)), LAMBDA g :
    IF d < 0 THEN [n |-> -(n \div g), d |-> -(d \div g)]
    ELSE [n |-> n \div g, d |-> d \div g])

Num(k) == [n |-> k, d |-> 1]
Zero == Num(0)

RECURSIVE IntPow(_, _)
IntPow(b, e) == IF e = 0 THEN 1 ELSE b * IntPow(b, e - 1)

f64_add(a, b) == Rat(a.n * b.d + b.n * a.d, a.d * b.d)
f64_sub(a, b) == Rat(a.n * b.d - b.n * a.d, a.d * b.d)
f64_mul(a, b) == Rat(a.n * b.n, a.d * b.d)
f64_div(a, b) == Rat(a.n * b.d, a.d * b.n)
f64_neg(a) == [n |-> -a.n, d |-> a.d]
\* f64::powf for an integer exponent (0^negative, an infinity in f64, and
\* fractional exponents are outside the numbers the model computes with).
f64_powf(a, b) ==
  IF b.d # 1 \/ (a.n = 0 /\ b.n < 0) THEN Zero
  ELSE IF b.n >= 0 THEN Rat(IntPow(a.n, b.n), IntPow(a.d, b.n))
  ELSE Rat(IntPow(a.d, -b.n), IntPow(a.n, -b.n))

(***************************************************************************)
(* f64 <-> text: f64's Display (to_string) and FromStr (parse).            *)
(***************************************************************************)
RECURSIVE IntDigits(_)
IntDigits(k) ==
  IF k < 10 THEN <<DigitChars[k + 1]>>
  ELSE IntDigits(k \div 10) \o <<DigitChars[(k % 10) + 1]>>

RECURSIVE FracDigits(_, _, _)
FracDigits(rem, d, k) ==
  IF rem = 0 \/ k = 0 THEN <<>>
  ELSE <<DigitChars[((rem * 10) \div d) + 1]>> \o FracDigits((rem * 10) % d, d, k - 1)

\* f64::to_string: no decimal point for an integer value, "-" for a negative one.
f64_to_string(v) ==
  Let(Abs(v.n), LAMBDA a :
    (IF v.n < 0 THEN <<"-">> ELSE <<>>)
      \o IntDigits(a \div v.d)
      \o (IF a % v.d = 0 THEN <<>> ELSE <<".">> \o FracDigits(a % v.d, v.d, MaxFracDigits)))

At(s, i) == IF i >= 1 /\ i <= Len(s) THEN s[i] ELSE ""

RECURSIVE TakeDigits(_, _)
TakeDigits(s, i) == IF IsDigit(At(s, i)) THEN 1 + TakeDigits(s, i + 1) ELSE 0

RECURSIVE TakeAlpha(_, _)
TakeAlpha(s, i) == IF IsAlpha(At(s, i)) THEN 1 + TakeAlpha(s, i + 1) ELSE 0

\* The value of the digits s[i .. j-1].
RECURSIVE DigitsValue(_, _, _)
DigitsValue(s, i, j) ==
  IF j <= i THEN 0 ELSE DigitsValue(s, i, j - 1) * 10 + DigitVal(s[j - 1])

\* str::parse::<f64>: [sign] (digits [. digits] | . digits) [e [sign] digits],
\* the whole text and nothing else; None for any other text.
f64_from_str(s) ==
  Let(IF At(s, 1) \in {"+", "-"} THEN 2 ELSE 1, LAMBDA i0 :
  Let(i0 + TakeDigits(s, i0), LAMBDA i1 :
  Let(IF At(s, i1) = "." THEN i1 + 1 ELSE i1, LAMBDA i2 :
  Let(i2 + TakeDigits(s, i2), LAMBDA i3 :
  Let(At(s, i3) \in {"e", "E"}, LAMBDA hasExp :
  Let(IF hasExp THEN (IF At(s, i3 + 1) \in {"+", "-"} THEN i3 + 2 ELSE i3 + 1) ELSE i3, LAMBDA j0 :
  Let(j0 + TakeDigits(s, j0), LAMBDA j1 :
    IF (i1 - i0) + (i3 - i2) = 0 \/ (hasExp /\ j1 = j0) \/ j1 # Len(s) + 1
    THEN None
    ELSE
      Let(Rat(DigitsValue(s, i0, i1) * IntPow(10, i3 - i2) + DigitsValue(s, i2, i3),
              IntPow(10, i3 - i2)), LAMBDA mant :
      Let(IF ~hasExp THEN mant
          ELSE IF At(s, i3 + 1) = "-" THEN f64_div(mant, Num(IntPow(10, DigitsValue(s, j0, j1))))
          ELSE f64_mul(mant, Num(IntPow(10, DigitsValue(s, j0, j1)))), LAMBDA scaled :
        Some(IF At(s, 1) = "-" THEN f64_neg(scaled) ELSE scaled))))))))))

(***************************************************************************)
(* Addresses and the grid (model/grid.rs).                                 *)
(***************************************************************************)
I32Max == 2147483647
I32Min == -I32Max - 1

\* The i32 that result * 26 + d is with wrapping arithmetic (a build without
\* overflow checks), computed on 16-bit halves.
wrapping_mul26_add(result, d) ==
  Let(((result % 65536) * 26) + d, LAMBDA lo :
    Let((((result \div 65536) % 65536) * 26 + (lo \div 65536)) % 65536, LAMBDA hi :
      (IF hi >= 32768 THEN hi - 65536 ELSE hi) * 65536 + (lo % 65536)))

\* result * 26 + d leaves the range of i32 (a build with overflow checks
\* panics: "attempt to multiply with overflow", "attempt to add with overflow").
mul26_add_overflows(result, d) ==
  IF result > I32Max \div 26 \/ result < -(I32Max \div 26) THEN TRUE
  ELSE IF d > 0 THEN result * 26 > I32Max - d
  ELSE result * 26 < I32Min - d

Coords(r, c) == [row |-> r, column |-> c]
Cell(content, display_value) == [content |-> content, display_value |-> display_value]
\* Cell::new
Cell_new == Cell(<<>>, <<>>)

\* The letters of a column index read as a plain base-26 numeral, A for 0.
RECURSIVE column_index_base26(_)
column_index_base26(column) ==
  IF column < 0 THEN <<>>
  ELSE IF column < 26 THEN <<UpperChars[column + 1]>>
  ELSE column_index_base26(column \div 26) \o <<UpperChars[(column % 26) + 1]>>

\* column_index_to_letter: the letters of a column index, "" below 0.
RECURSIVE column_index_to_letter(_)
column_index_to_letter(column) ==
  IF column < 0 THEN <<>>
  ELSE column_index_to_letter((column \div 26) - 1) \o <<UpperChars[(column % 26) + 1]>>

\* The digits of 2^31, the magnitude of i32::MIN.
I32MinDigits == <<"2", "1", "4", "7", "4", "8", "3", "6", "4", "8">>

\* i32::to_string, as format!("{}", n) writes it.
i32_to_string(n) ==
  IF n = I32Min THEN <<"-">> \o I32MinDigits
  ELSE IF n < 0 THEN <<"-">> \o IntDigits(-n) ELSE IntDigits(n)

\* c as i32 - 'A' as i32 + 1, of the upper-case form of c
LetterNumber(c) == CharCode(to_ascii_uppercase(c)) - CharCode("A") + 1

\* column_letter_to_index, an i32: the value of a build without overflow checks.
RECURSIVE column_letter_to_index(_)
column_letter_to_index(column) ==
  IF column = <<>> THEN 0
  ELSE wrapping_mul26_add(column_letter_to_index(SubSeq(column, 1, Len(column) - 1)),
                          LetterNumber(column[Len(column)]))

\* column_letter_to_index leaves the range of i32 at some letter.
RECURSIVE column_letter_to_index_overflows(_)
column_letter_to_index_overflows(column) ==
  IF column = <<>> THEN FALSE
  ELSE \/ column_letter_to_index_overflows(SubSeq(column, 1, Len(column) - 1))
       \/ mul26_add_overflows(column_letter_to_index(SubSeq(column, 1, Len(column) - 1)),
                              LetterNumber(column[Len(column)]))

\* str::find(char::is_numeric): the position of the first digit, 0 when none.
RECURSIVE FindNumeric(_, _)
FindNumeric(s, i) ==
  IF i > Len(s) THEN 0 ELSE IF IsDigit(s[i]) THEN i ELSE FindNumeric(s, i + 1)

\* The digits s[i ..] added to acc one by one, None once the value passes
\* i32::MAX (PosOverflow).
RECURSIVE i32_checked_digits(_, _, _)
i32_checked_digits(s, i, acc) ==
  IF i > Len(s) THEN Some(acc)
  ELSE IF acc > (I32Max - DigitVal(s[i])) \div 10 THEN None
  ELSE i32_checked_digits(s, i + 1, acc * 10 + DigitVal(s[i]))

\* str::parse::<i32> of a text that starts with a digit.
i32_from_str(s) ==
  IF s = <<>> \/ TakeDigits(s, 1) # Len(s) THEN None
  ELSE i32_checked_digits(s, 1, 0)

cell_address_to_coords(address) ==
  Let(FindNumeric(address, 1), LAMBDA col_end :
    IF col_end = 0 THEN None
    ELSE Let(i32_from_str(SubSeq(address, col_end, Len(address))), LAMBDA row :
           IF ~row.some THEN None
           ELSE Some(Coords(row.v - 1,
                            Let(column_letter_to_index(SubSeq(address, 1, col_end - 1)),
                                LAMBDA col : IF col = I32Min THEN I32Max ELSE col - 1)))))

\* cell_address_to_coords leaves the range of i32: in column_letter_to_index,
\* which runs before the row is parsed, or in col - 1.
cell_address_to_coords_overflows(address) ==
  Let(FindNumeric(address, 1), LAMBDA col_end :
    /\ col_end # 0
    /\ \/ column_letter_to_index_overflows(SubSeq(address, 1, col_end - 1))
       \/ /\ i32_from_str(SubSeq(address, col_end, Len(address))).some
          /\ column_letter_to_index(SubSeq(address, 1, col_end - 1)) = I32Min)

\* A resolver that parses the content of the cell, not what it displays.
get_cell_value_by_address_content(cells, address) ==
  Let(cell_address_to_coords(address), LAMBDA coords :
    IF ~coords.some THEN None
    ELSE IF coords.v \notin DOMAIN cells THEN None
    ELSE f64_from_str(cells[coords.v].content))

\* Grid::get_cell_value_by_address
get_cell_value_by_address(cells, address) ==
  Let(cell_address_to_coords(address), LAMBDA coords :
    IF ~coords.some THEN None
    ELSE IF coords.v \notin DOMAIN cells THEN None
    ELSE f64_from_str(cells[coords.v].display_value))

(***************************************************************************)
(* The formula grammar (engine/cell_formula.pest, derived by pest into     *)
(* CellFormulaParser). The grammar file is not among the sources; it is    *)
(* modelled from the specification's 4.1 and from the texts test_parsing   *)
(* expects to parse:                                                       *)
(*   formula  = SOI "=" expr EOI                                           *)
(*   expr     = neg* primary (infix neg* primary)*                         *)
(*   primary  = func | cell_ref | number | "(" expr ")"                    *)
(*   func     = letters+ "(" [expr ("," expr)*] ")"                        *)
(*   cell_ref = letters+ digits+      number = digits+ ["." digits+]       *)
(*   infix    = "+" | "-" | "*" | "/" | "^"     neg = "-"                  *)
(* with blanks allowed between tokens. The result of a parse is the flat   *)
(* list of pairs of the top expr, as pest hands it to the Pratt parser.    *)
(***************************************************************************)
RECURSIVE SkipWs(_, _)
SkipWs(s, i) == IF At(s, i) = " " THEN SkipWs(s, i + 1) ELSE i

InfixRule(c) ==
  CASE c = "+" -> "add" [] c = "-" -> "sub" [] c = "*" -> "mul"
    [] c = "/" -> "div" [] c = "^" -> "pow" [] OTHER -> "none"

PegFail == [ok |-> FALSE]
PegOk(pairs, pos) == [ok |-> TRUE, pairs |-> pairs, pos |-> pos]

RECURSIVE peg_expr(_, _)
RECURSIVE peg_operand(_, _)
RECURSIVE peg_primary(_, _)
RECURSIVE peg_args(_, _)
RECURSIVE peg_tail(_, _)

\* number | cell_ref | func | "(" expr ")" at position i (a non-blank).
peg_primary(s, i) ==
  IF At(s, i) = "(" THEN
    Let(peg_expr(s, SkipWs(s, i + 1)), LAMBDA r :
      IF r.ok /\ At(s, SkipWs(s, r.pos)) = ")"
      THEN PegOk(<<[rule |-> "expr", inner |-> r.pairs]>>, SkipWs(s, r.pos) + 1)
      ELSE PegFail)
  ELSE IF IsDigit(At(s, i)) THEN
    Let(i + TakeDigits(s, i), LAMBDA i1 :
    Let(IF At(s, i1) = "." /\ IsDigit(At(s, i1 + 1))
        THEN i1 + 1 + TakeDigits(s, i1 + 1) ELSE i1, LAMBDA i2 :
      PegOk(<<[rule |-> "number", str |-> SubSeq(s, i, i2 - 1)]>>, i2)))
  ELSE IF IsAlpha(At(s, i)) THEN
    Let(i + TakeAlpha(s, i), LAMBDA j :
    Let(SkipWs(s, j), LAMBDA k :
      IF At(s, k) = "(" THEN
        Let(SkipWs(s, k + 1), LAMBDA k1 :
          IF At(s, k1) = ")"
          THEN PegOk(<<[rule |-> "func", name |-> SubSeq(s, i, j - 1), args |-> <<>>]>>, k1 + 1)
          ELSE Let(peg_args(s, k1), LAMBDA a :
                 IF a.ok /\ At(s, SkipWs(s, a.pos)) = ")"
                 THEN PegOk(<<[rule |-> "func", name |-> SubSeq(s, i, j - 1), args |-> a.pairs]>>,
                            SkipWs(s, a.pos) + 1)
                 ELSE PegFail))
      ELSE IF IsDigit(At(s, j)) THEN
        Let(j + TakeDigits(s, j), LAMBDA e :
          PegOk(<<[rule |-> "cell_ref", str |-> SubSeq(s, i, e - 1)]>>, e))
      ELSE PegFail))
  ELSE PegFail

\* neg* primary
peg_operand(s, i) ==
  IF At(s, i) = "-" THEN
    Let(peg_operand(s, SkipWs(s, i + 1)), LAMBDA r :
      IF r.ok THEN PegOk(<<[rule |-> "neg"]>> \o r.pairs, r.pos) ELSE PegFail)
  ELSE peg_primary(s, i)

\* (infix neg* primary)*, from position i just after an operand.
peg_tail(s, i) ==
  Let(SkipWs(s, i), LAMBDA k :
    IF InfixRule(At(s, k)) = "none" THEN PegOk(<<>>, i)
    ELSE Let(peg_operand(s, SkipWs(s, k + 1)), LAMBDA r :
           IF ~r.ok THEN PegOk(<<>>, i)
           ELSE Let(peg_tail(s, r.pos), LAMBDA t :
                  PegOk(<<[rule |-> InfixRule(At(s, k))]>> \o r.pairs \o t.pairs, t.pos))))

peg_expr(s, i) ==
  Let(peg_operand(s, i), LAMBDA r :
    IF ~r.ok THEN PegFail
    ELSE Let(peg_tail(s, r.pos), LAMBDA t : PegOk(r.pairs \o t.pairs, t.pos)))

\* expr ("," expr)*: the list of the arguments' pair lists.
peg_args(s, i) ==
  Let(peg_expr(s, i), LAMBDA r :
    IF ~r.ok THEN PegFail
    ELSE IF At(s, SkipWs(s, r.pos)) = "," THEN
      Let(peg_args(s, SkipWs(s, SkipWs(s, r.pos) + 1)), LAMBDA a :
        IF a.ok THEN PegOk(<<r.pairs>> \o a.pairs, a.pos) ELSE PegFail)
    ELSE PegOk(<<r.pairs>>, r.pos))

\* CellFormulaParser::parse(Rule::formula, input)
CellFormulaParser_parse(input) ==
  IF At(input, SkipWs(input, 1)) # "=" THEN PegFail
  ELSE Let(peg_expr(input, SkipWs(input, SkipWs(input, 1) + 1)), LAMBDA r :
         IF r.ok /\ SkipWs(input, r.pos) = Len(input) + 1 THEN r ELSE PegFail)

(***************************************************************************)
(* The formula engine (engine/parser.rs).                                  *)
(***************************************************************************)
\* enum FormulaError: the variants, DivBy0 being the division by zero.
FormulaError == {"ParsingError", "DivBy0", "UnknownFunction"}

\* impl fmt::Display for FormulaError
FormulaError_to_string(e) ==
  CASE e = "ParsingError" -> <<"#", "N", "A", "M", "E", "?">>
    [] e = "DivBy0" -> <<"#", "D", "I", "V", "/", "0", "!">>
    [] e = "UnknownFunction" -> <<"#", "N", "A", "M", "E", "?">>

\* PRATT_PARSER: the precedence of each operator rule (one step per .op()
\* call, in the order of the calls) and the associativity of the infix ones.
PrattPrec(rule) ==
  CASE rule \in {"add", "sub"} -> 10
    [] rule \in {"mul", "div"} -> 20
    [] rule = "pow" -> 30
    [] rule = "neg" -> 40
\* Every infix operator left-associative.
PrattAllLeftAssoc(rule) == FALSE

PrattRightAssoc(rule) == rule = "pow"

BinOpOf(rule) ==
  CASE rule = "add" -> "Add" [] rule = "sub" -> "Sub" [] rule = "mul" -> "Mul"
    [] rule = "div" -> "Div" [] rule = "pow" -> "Pow"

RECURSIVE parse_expr(_)
RECURSIVE pratt_expr(_, _, _)
RECURSIVE pratt_loop(_, _, _, _)

\* map_primary of parse_expr
map_primary(primary) ==
  CASE primary.rule = "number" ->
         [kind |-> "Number", n |-> f64_from_str(primary.str).v]
    [] primary.rule = "cell_ref" ->
         [kind |-> "CellRef", cr |-> primary.str]
    [] primary.rule = "func" ->
         [kind |-> "Function", name |-> primary.name,
          args |-> [k \in DOMAIN primary.args |-> parse_expr(primary.args[k])]]
    [] primary.rule = "expr" -> parse_expr(primary.inner)

\* The operand at pairs[i]: a prefix operator applied to what follows, or a primary.
pratt_nud(pairs, i) ==
  IF pairs[i].rule = "neg" THEN
    Let(pratt_expr(pairs, i + 1, PrattPrec("neg") - 1), LAMBDA rhs :
      [e |-> [kind |-> "UnaryOp", op |-> "Neg", operand |-> rhs.e], pos |-> rhs.pos])
  ELSE [e |-> map_primary(pairs[i]), pos |-> i + 1]

pratt_lbp(pairs, i) == IF i > Len(pairs) THEN 0 ELSE PrattPrec(pairs[i].rule)

pratt_loop(pairs, lhs, i, rbp) ==
  IF rbp < pratt_lbp(pairs, i) THEN
    Let(pratt_expr(pairs, i + 1,
                   IF PrattRightAssoc(pairs[i].rule) THEN PrattPrec(pairs[i].rule) - 1
                   ELSE PrattPrec(pairs[i].rule)), LAMBDA rhs :
      pratt_loop(pairs,
                 [kind |-> "BinaryOp", op |-> BinOpOf(pairs[i].rule), lhs |-> lhs, rhs |-> rhs.e],
                 rhs.pos, rbp))
  ELSE [e |-> lhs, pos |-> i]

pratt_expr(pairs, i, rbp) ==
  Let(pratt_nud(pairs, i), LAMBDA l : pratt_loop(pairs, l.e, l.pos, rbp))

parse_expr(pairs) == pratt_expr(pairs, 1, 0).e

RECURSIVE SumSeq(_)
SumSeq(args) == IF args = <<>> THEN Zero ELSE f64_add(SumSeq(SubSeq(args, 1, Len(args) - 1)), args[Len(args)])

sum(args) == Ok(SumSeq(args))

\* A mean that is 0 for an empty list.
avg_of_none_is_zero(args) ==
  IF args = <<>> THEN Ok(Zero)
  ELSE Ok(f64_div(SumSeq(args), Num(Len(args))))

avg(args) ==
  IF args = <<>> THEN Err("DivBy0")
  ELSE Ok(f64_div(SumSeq(args), Num(Len(args))))

RECURSIVE to_uppercase(_)
to_uppercase(s) ==
  IF s = <<>> THEN <<>> ELSE <<to_ascii_uppercase(s[1])>> \o to_uppercase(Tail(s))

\* A registry that answers SUM for every name it does not hold.
FUNCTION_REGISTRY_get_or_sum(name) ==
  IF name = <<"A", "V", "G">> THEN Some("avg") ELSE Some("sum")

\* FUNCTION_REGISTRY.get(name)
FUNCTION_REGISTRY_get(name) ==
  IF name = <<"S", "U", "M">> THEN Some("sum")
  ELSE IF name = <<"A", "V", "G">> THEN Some("avg")
  ELSE None

\* A division that yields 0 instead of failing when the divisor is 0.
eval_binary_op_total(op, lhs, rhs) ==
  CASE op = "Add" -> Ok(f64_add(lhs, rhs))
    [] op = "Sub" -> Ok(f64_sub(lhs, rhs))
    [] op = "Mul" -> Ok(f64_mul(lhs, rhs))
    [] op = "Div" -> IF rhs = Zero THEN Ok(Zero) ELSE Ok(f64_div(lhs, rhs))
    [] op = "Pow" -> Ok(f64_powf(lhs, rhs))

eval_binary_op(op, lhs, rhs) ==
  CASE op = "Add" -> Ok(f64_add(lhs, rhs))
    [] op = "Sub" -> Ok(f64_sub(lhs, rhs))
    [] op = "Mul" -> Ok(f64_mul(lhs, rhs))
    [] op = "Div" -> IF rhs = Zero THEN Err("DivBy0") ELSE Ok(f64_div(lhs, rhs))
    [] op = "Pow" -> Ok(f64_powf(lhs, rhs))

eval_unary_op(op, operand) == f64_neg(operand)

\* A reference that fails when the resolver returns nothing.
eval_cell_ref_strict(cr, cells) ==
  Let(get_cell_value_by_address(cells, cr), LAMBDA r :
    IF r.some THEN Ok(r.v) ELSE Err("ParsingError"))

\* Expr::CellRef(cr) => match cell_ref_resolver(cr), the resolver being
\* grid.get_cell_value_by_address (update_cell_display, line 46).
eval_cell_ref(cr, cells) ==
  Let(get_cell_value_by_address(cells, cr), LAMBDA r :
    IF r.some THEN Ok(r.v) ELSE Ok(Zero))

\* The last error of a list of results: 0 when there is none.
RECURSIVE LastErr(_, _)
LastErr(rs, i) ==
  IF i > Len(rs) THEN 0
  ELSE IF LastErr(rs, i + 1) # 0 THEN LastErr(rs, i + 1)
  ELSE IF ~rs[i].ok THEN i ELSE 0

\* The first error of a list of results, left to right: 0 when there is none.
RECURSIVE FirstErr(_, _)
FirstErr(rs, i) ==
  IF i > Len(rs) THEN 0 ELSE IF ~rs[i].ok THEN i ELSE FirstErr(rs, i + 1)

RECURSIVE eval_expr(_, _)
eval_expr(expr, cells) ==
  CASE expr.kind = "Number" -> Ok(expr.n)
    [] expr.kind = "CellRef" -> eval_cell_ref(expr.cr, cells)
    [] expr.kind = "BinaryOp" ->
         Let(eval_expr(expr.lhs, cells), LAMBDA lval :
           IF ~lval.ok THEN lval
           ELSE Let(eval_expr(expr.rhs, cells), LAMBDA rval :
                  IF ~rval.ok THEN rval
                  ELSE eval_binary_op(expr.op, lval.val, rval.val)))
    [] expr.kind = "UnaryOp" ->
         Let(eval_expr(expr.operand, cells), LAMBDA val :
           IF ~val.ok THEN val ELSE Ok(eval_unary_op(expr.op, val.val)))
    [] expr.kind = "Function" ->
         Let([k \in DOMAIN expr.args |-> eval_expr(expr.args[k], cells)], LAMBDA rs :
           IF FirstErr(rs, 1) # 0 THEN rs[FirstErr(rs, 1)]
           ELSE Let(FUNCTION_REGISTRY_get(to_uppercase(expr.name)), LAMBDA func :
                  IF ~func.some THEN Err("UnknownFunction")
                  ELSE IF func.v = "sum" THEN sum([k \in DOMAIN rs |-> rs[k].val])
                  ELSE avg([k \in DOMAIN rs |-> rs[k].val])))

\* A calculate that evaluates the longest prefix of the text that parses.
calculate_prefix(input, cells) ==
  Let({k \in 0..Len(input) : CellFormulaParser_parse(SubSeq(input, 1, k)).ok}, LAMBDA ks :
    IF ks = {} THEN Err("ParsingError")
    ELSE Let(CHOOSE k \in ks : \A j \in ks : j <= k, LAMBDA k :
           eval_expr(parse_expr(CellFormulaParser_parse(SubSeq(input, 1, k)).pairs), cells)))

calculate(input, cells) ==
  Let(CellFormulaParser_parse(input), LAMBDA parsed :
    IF parsed.ok THEN eval_expr(parse_expr(parsed.pairs), cells)
    ELSE Err("ParsingError"))

(***************************************************************************)
(* The state of the program: the Grid signal shared by the components      *)
(* and which widget holds the keyboard focus; the call stack of            *)
(* update_cell_display in the step-wise specification; and two variables   *)
(* that are not program state: the sheet a run draws its texts from, and   *)
(* a history of what the recomputations so far have read. calc holds the   *)
(* argument and the result of one call of parser::calculate or of          *)
(* Grid::get_cell_value_by_address made on its own, as the tests of        *)
(* engine/parser.rs make them.                                             *)
(***************************************************************************)
VARIABLES
  cells_map,         \* Grid.cells_map: Coords -> Cell, an entry per cell written
  current_cell,      \* Grid.current_cell
  previous_content,  \* Grid.previous_content
  is_editing_cell,   \* Grid.is_editing_cell: the in-grid editor is mounted
  focus,             \* "grid" (scroll container or in-grid editor) or "formula"
  stack,             \* the pending calls of update_cell_display, innermost last
  sheet,             \* the sheet the user is typing in (which texts are entered)
  hist,              \* history: the last recompute, and what recomputes have read
  calc,              \* a call of the engine or of the resolver on its own, and its result
  nav                \* CellAddressInput's signals, and the count of the keys that moved
                     \* the selection

vars == <<cells_map, current_cell, previous_content, is_editing_cell, focus, stack,
          sheet, hist, calc, nav>>

CELL_ROWS == 100
CELL_COLUMNS == 26

A1 == Coords(0, 0)
B1 == Coords(0, 1)
C1 == Coords(0, 2)

\* The cells the user edits and the texts the user enters into each. A
\* run draws its texts from one of these sheets, fixed when it starts.
EditCoords == {A1, B1, C1}
Sheets == {"chain", "stale", "cycle"}
Texts(coords) ==
  CASE sheet = "chain" ->
         (CASE coords = A1 -> {<<"1">>, <<"1", "0">>, <<"=", "1", "/", "0">>}
            [] coords = B1 -> {<<"=", "A", "1", "+", "1">>}
            [] coords = C1 -> {<<"=", "B", "1", "+", "1">>, <<"=", "A", "1", "+", "B", "1">>}
            [] OTHER -> {})
    [] sheet = "stale" ->
         (CASE coords = A1 -> {<<"1">>, <<"1", "0">>}
            [] coords = B1 -> {<<"=", "A", "1">>, <<"=", "C", "1">>}
            [] coords = C1 -> {<<"5">>, <<"x">>}
            [] OTHER -> {})
    [] sheet = "cycle" ->
         (CASE coords = A1 -> {<<"=", "B", "1">>, <<"=", "A", "1", "+", "1">>}
            [] coords = B1 -> {<<"=", "A", "1">>, <<"5">>}
            [] coords = C1 -> {<<"=", "A", "1">>}
            [] OTHER -> {})
    [] sheet = "loop" ->
         (CASE coords = A1 -> {<<"=", "B", "1">>, <<"=", "A", "1">>}
            [] coords = B1 -> {<<"=", "A", "1">>, <<"5">>}
            [] coords = C1 -> {<<"=", "A", "1">>}
            [] OTHER -> {})
    [] sheet = "bar" ->
         (CASE coords = A1 -> {<<"7">>}
            [] coords = B1 -> {<<"=", "A", "1">>}
            [] OTHER -> {})
\* The keys that start an edit in the grid: the first character of a text.
Keys(coords) == {t[1] : t \in Texts(coords)}

\* str::starts_with('=')
starts_with_eq(content) == Len(content) > 0 /\ content[1] = "="

\* cells_map.entry(coords).or_insert(Cell::new())
entry_or_insert(cells, coords) ==
  IF coords \in DOMAIN cells THEN cells ELSE cells @@ (coords :> Cell_new)

\* Grid::get_current_cell_content
get_current_cell_content(cells, cur) ==
  IF cur \in DOMAIN cells THEN cells[cur].content ELSE <<>>

\* Grid::get_current_cell_address
get_current_cell_address(cur) ==
  column_index_to_letter(cur.column)
    \o (IF cur.row = I32Max THEN <<"-">> \o I32MinDigits ELSE i32_to_string(cur.row + 1))

\* self.current_cell.row + 1 leaves the range of i32.
get_current_cell_address_overflows(cur) == cur.row = I32Max

\* The display value update_cell_display computes for a content.
\* A display that is calculated whatever the content.
display_of_calculated(content, cells) ==
  Let(calculate(content, cells), LAMBDA r :
    IF r.ok THEN f64_to_string(r.val) ELSE FormulaError_to_string(r.err))

display_of(content, cells) ==
  IF starts_with_eq(content) THEN
    Let(calculate(content, cells), LAMBDA r :
      IF r.ok THEN f64_to_string(r.val) ELSE FormulaError_to_string(r.err))
  ELSE content

\* A recompute that goes on to recompute every other formula cell.
update_cell_display_all(cells, coords) ==
  IF coords \notin DOMAIN cells THEN cells
  ELSE Let([cells EXCEPT ![coords].display_value = display_of(cells[coords].content, cells)],
           LAMBDA one :
             [c \in DOMAIN one |->
                IF c # coords /\ starts_with_eq(one[c].content)
                THEN Cell(one[c].content, display_of(one[c].content, one))
                ELSE one[c]])

\* update_cell_display: the cell map after the call.
\* A recompute that creates the cell it does not find.
update_cell_display_insert(cells, coords) ==
  Let(entry_or_insert(cells, coords), LAMBDA all :
    [all EXCEPT ![coords].display_value = display_of(all[coords].content, all)])

update_cell_display(cells, coords) ==
  IF coords \notin DOMAIN cells THEN cells
  ELSE [cells EXCEPT ![coords].display_value = display_of(cells[coords].content, cells)]

\* The cells a formula names.
RECURSIVE RefsOfPairs(_)
RefsOfPairs(pairs) ==
  IF pairs = <<>> THEN {}
  ELSE RefsOfPairs(Tail(pairs)) \cup
       (CASE pairs[1].rule = "cell_ref" ->
               Let(cell_address_to_coords(pairs[1].str), LAMBDA a :
                 IF a.some THEN {a.v} ELSE {})
          [] pairs[1].rule = "expr" -> RefsOfPairs(pairs[1].inner)
          [] pairs[1].rule = "func" ->
               UNION {RefsOfPairs(pairs[1].args[k]) : k \in DOMAIN pairs[1].args}
          [] OTHER -> {})

Refs(content) ==
  IF ~starts_with_eq(content) THEN {}
  ELSE Let(CellFormulaParser_parse(content), LAMBDA parsed :
         IF parsed.ok THEN RefsOfPairs(parsed.pairs) ELSE {})

\* A cascade: update_cell_display calling itself for every cell that names coords.
nested_calls_dependants(cells, coords) ==
  SelectSeq(<<A1, B1, C1>>,
            LAMBDA d : d \in DOMAIN cells /\ coords \in Refs(cells[d].content))

\* The calls update_cell_display(coords) makes to itself before it returns:
\* none (it has no loop and no call but parser::calculate).
nested_calls(cells, coords) == <<>>

\* The dependency edges the grid records as ending at a cell: the Grid
\* struct has no graph, and update_cell_display records no edge.
incoming_edges(coords) == {}

\* Coords::up_one .. right_one
up_one(c) == IF c.row > 0 THEN [c EXCEPT !.row = c.row - 1] ELSE c
down_one(c) == IF c.row < CELL_ROWS - 1 THEN [c EXCEPT !.row = c.row + 1] ELSE c
left_one(c) == IF c.column > 0 THEN [c EXCEPT !.column = c.column - 1] ELSE c
right_one(c) == IF c.column < CELL_COLUMNS - 1 THEN [c EXCEPT !.column = c.column + 1] ELSE c

\* Every number displayed is within the bound of the model.
WithinBound(cells) ==
  \A c \in DOMAIN cells :
    \A v \in {f64_from_str(cells[c].display_value)} :
      v.some => Abs(v.v.n) <= MaxVal * v.v.d

(***************************************************************************)
(* History of the recomputes.                                              *)
(***************************************************************************)
NoCell == Coords(-1, -1)

\* hist.last: the cell whose recompute was the last change of the cell map
\* (NoCell after a change of content); hist.deps[c]: the cells the last
\* recompute of c named; hist.stale: the pairs <<s, c>> such that an
\* earlier recompute of c named s and the last one did not; hist.begun:
\* the content the selected cell had when the last edit began.
HistInit ==
  [last |-> NoCell, deps |-> [c \in EditCoords |-> {}], stale |-> {}, begun |-> <<>>]

HistRecompute(h, coords, cells) ==
  IF coords \notin EditCoords \/ coords \notin DOMAIN cells THEN h
  ELSE Let(Refs(cells[coords].content), LAMBDA now :
         [last |-> coords,
          deps |-> [h.deps EXCEPT ![coords] = now],
          stale |-> (h.stale \cup {<<s, coords>> : s \in h.deps[coords] \ now})
                      \ {<<s, coords>> : s \in now},
          begun |-> h.begun])

HistWrite(h, cells, coords, value) ==
  IF get_current_cell_content(cells, coords) = value /\ coords \in DOMAIN cells THEN h
  ELSE [h EXCEPT !.last = NoCell]

\* An edit of the cell at coords begins.
HistBegin(h, cells, coords) == [h EXCEPT !.begun = get_current_cell_content(cells, coords)]

\* CellAddressInput as mounted: previous_address is the address of the
\* selected cell of Grid::new, value is empty. No key has moved the selection.
NavIdle == [previous_address |-> <<"A", "1">>, value |-> <<>>, moves |-> 0]

\* No call of the engine on its own.
CalcIdle ==
  [op |-> "none", input |-> <<>>, done |-> FALSE, result |-> None, display |-> <<>>,
   from |-> <<>>]

Init ==
  /\ cells_map = <<>>
  /\ current_cell = Coords(0, 0)
  /\ previous_content = <<>>
  /\ is_editing_cell = FALSE
  /\ focus = "grid"
  /\ stack = <<>>
  /\ sheet \in Sheets
  /\ hist = HistInit
  /\ calc = CalcIdle
  /\ nav = NavIdle

(***************************************************************************)
(* The handlers of the grid (components/grid.rs).                          *)
(***************************************************************************)
\* GridCells onclick. A click on a cell takes the focus to the scroll
\* container; the in-grid editor, when mounted, loses it first (InputCell_onblur).
GridCells_onclick(coords) ==
  /\ stack = <<>>
  /\ ~is_editing_cell
  /\ current_cell' = coords
  /\ focus' = "grid"
  /\ UNCHANGED <<cells_map, previous_content, is_editing_cell, hist, stack, sheet, calc, nav>>

\* GridCells ondoubleclick, on the selected cell.
GridCells_ondoubleclick ==
  /\ stack = <<>>
  /\ ~is_editing_cell
  /\ current_cell \in EditCoords
  /\ previous_content' = get_current_cell_content(cells_map, current_cell)
  /\ is_editing_cell' = TRUE
  /\ focus' = "grid"
  /\ hist' = HistBegin(hist, cells_map, current_cell)
  /\ UNCHANGED <<cells_map, current_cell, stack, sheet, calc, nav>>

\* GridDisplay onkeydown, Key::Character(c) with c.len() == 1.
GridDisplay_onkeydown_Character(c) ==
  /\ stack = <<>>
  /\ focus = "grid"
  /\ ~is_editing_cell
  /\ previous_content' = get_current_cell_content(cells_map, current_cell)
  /\ cells_map' = [entry_or_insert(cells_map, current_cell) EXCEPT ![current_cell].content = <<c>>]
  /\ is_editing_cell' = TRUE
  /\ hist' = HistWrite(HistBegin(hist, cells_map, current_cell), cells_map, current_cell, <<c>>)
  /\ UNCHANGED <<current_cell, focus, stack, sheet, calc, nav>>

\* InputCell oninput: the editor is mounted on the selected cell.
InputCell_oninput(value) ==
  /\ stack = <<>>
  /\ is_editing_cell
  /\ cells_map' = [entry_or_insert(cells_map, current_cell) EXCEPT ![current_cell].content = value]
  /\ hist' = HistWrite(hist, cells_map, current_cell, value)
  /\ UNCHANGED <<current_cell, previous_content, is_editing_cell, focus, stack, sheet, calc, nav>>

\* InputCell onblur.
InputCell_onblur ==
  /\ stack = <<>>
  /\ is_editing_cell
  /\ is_editing_cell' = FALSE
  /\ cells_map' = update_cell_display(cells_map, current_cell)
  /\ WithinBound(cells_map')
  /\ hist' = HistRecompute(hist, current_cell, cells_map)
  /\ UNCHANGED <<current_cell, previous_content, focus, stack, sheet, calc, nav>>

\* InputCell onkeydown, Key::Enter | Key::Tab, with or without Shift.
InputCell_onkeydown_Enter(shift) ==
  /\ stack = <<>>
  /\ is_editing_cell
  /\ is_editing_cell' = FALSE
  /\ cells_map' = update_cell_display(cells_map, current_cell)
  /\ WithinBound(cells_map')
  /\ current_cell' = IF shift THEN up_one(current_cell) ELSE down_one(current_cell)
  /\ hist' = HistRecompute(hist, current_cell, cells_map)
  /\ UNCHANGED <<previous_content, focus, stack, sheet, calc, nav>>

InputCell_onkeydown_Tab(shift) ==
  /\ stack = <<>>
  /\ is_editing_cell
  /\ is_editing_cell' = FALSE
  /\ cells_map' = update_cell_display(cells_map, current_cell)
  /\ WithinBound(cells_map')
  /\ current_cell' = IF shift THEN left_one(current_cell) ELSE right_one(current_cell)
  /\ hist' = HistRecompute(hist, current_cell, cells_map)
  /\ UNCHANGED <<previous_content, focus, stack, sheet, calc, nav>>

\* InputCell onkeydown, Key::Escape.
InputCell_onkeydown_Escape ==
  LET restored == [entry_or_insert(cells_map, current_cell)
                     EXCEPT ![current_cell].content = previous_content]
  IN  /\ stack = <<>>
      /\ is_editing_cell
      /\ is_editing_cell' = FALSE
      /\ cells_map' = update_cell_display(restored, current_cell)
      /\ WithinBound(cells_map')
      /\ hist' = HistRecompute(hist, current_cell, restored)
      /\ UNCHANGED <<current_cell, previous_content, focus, stack, sheet, calc, nav>>

(***************************************************************************)
(* The handlers of the formula bar (components/header.rs).                 *)
(***************************************************************************)
\* The user clicks into the formula input: the in-grid editor, when
\* mounted, loses the focus first (InputCell_onblur). FormulaInput onfocus
\* stores the content in a signal that nothing reads.
FormulaInput_onfocus ==
  /\ stack = <<>>
  /\ ~is_editing_cell
  /\ focus = "grid"
  /\ focus' = "formula"
  /\ hist' = HistBegin(hist, cells_map, current_cell)
  /\ UNCHANGED <<cells_map, current_cell, previous_content, is_editing_cell, stack, sheet, calc, nav>>

FormulaInput_oninput(value) ==
  /\ stack = <<>>
  /\ focus = "formula"
  /\ cells_map' = [entry_or_insert(cells_map, current_cell)
                     EXCEPT ![current_cell] = Cell(value, value)]
  /\ hist' = [hist EXCEPT !.last = NoCell]
  /\ UNCHANGED <<current_cell, previous_content, is_editing_cell, focus, stack, sheet, calc, nav>>

\* FormulaInput onkeydown, Key::Enter: the focus goes back to the grid.
FormulaInput_onkeydown_Enter ==
  /\ stack = <<>>
  /\ focus = "formula"
  /\ cells_map' = update_cell_display(cells_map, current_cell)
  /\ WithinBound(cells_map')
  /\ focus' = "grid"
  /\ hist' = HistRecompute(hist, current_cell, cells_map)
  /\ UNCHANGED <<current_cell, previous_content, is_editing_cell, stack, sheet, calc, nav>>

\* FormulaInput onkeydown, Key::Escape.
FormulaInput_onkeydown_Escape ==
  LET restored == [entry_or_insert(cells_map, current_cell)
                     EXCEPT ![current_cell].content = previous_content]
  IN  /\ stack = <<>>
      /\ focus = "formula"
      /\ cells_map' = update_cell_display(restored, current_cell)
      /\ WithinBound(cells_map')
      /\ focus' = "grid"
      /\ hist' = HistRecompute(hist, current_cell, restored)
      /\ UNCHANGED <<current_cell, previous_content, is_editing_cell, stack, sheet, calc, nav>>

(***************************************************************************)
(* Navigation: the keys of GridDisplay that move the selection             *)
(* (components/grid.rs) and the address box (components/header.rs).        *)
(***************************************************************************)
\* The addresses typed into the address box: the last cell of the grid,
\* cells past its last row and its last column, row 0, a cell in the grid
\* and a text that is no address.
NavAddresses ==
  {<<"Z", "1", "0", "0">>, <<"A", "1", "0", "1">>,
   <<"A", "A", "1">>, <<"A", "0">>, <<"b", "2">>, <<"x">>}

Arrows == {"ArrowDown", "ArrowUp", "ArrowLeft", "ArrowRight"}

\* GridDisplay onkeydown, Key::ArrowDown | ArrowUp | ArrowLeft | ArrowRight.
GridDisplay_onkeydown_Arrow(key) ==
  /\ stack = <<>>
  /\ focus = "grid"
  /\ ~is_editing_cell
  /\ nav.moves < MaxMoves
  /\ current_cell' = CASE key = "ArrowDown" -> down_one(current_cell)
                        [] key = "ArrowUp" -> up_one(current_cell)
                        [] key = "ArrowLeft" -> left_one(current_cell)
                        [] key = "ArrowRight" -> right_one(current_cell)
  /\ nav' = [nav EXCEPT !.moves = nav.moves + 1]
  /\ UNCHANGED <<cells_map, previous_content, is_editing_cell, focus, stack, sheet, hist, calc>>

\* GridDisplay onkeydown, Key::Enter, with or without Shift.
GridDisplay_onkeydown_Enter(shift) ==
  /\ stack = <<>>
  /\ focus = "grid"
  /\ ~is_editing_cell
  /\ nav.moves < MaxMoves
  /\ current_cell' = IF shift THEN up_one(current_cell) ELSE down_one(current_cell)
  /\ nav' = [nav EXCEPT !.moves = nav.moves + 1]
  /\ UNCHANGED <<cells_map, previous_content, is_editing_cell, focus, stack, sheet, hist, calc>>

\* GridDisplay onkeydown, Key::Tab, with or without Shift.
GridDisplay_onkeydown_Tab(shift) ==
  /\ stack = <<>>
  /\ focus = "grid"
  /\ ~is_editing_cell
  /\ nav.moves < MaxMoves
  /\ current_cell' = IF shift THEN left_one(current_cell) ELSE right_one(current_cell)
  /\ nav' = [nav EXCEPT !.moves = nav.moves + 1]
  /\ UNCHANGED <<cells_map, previous_content, is_editing_cell, focus, stack, sheet, hist, calc>>

\* CellAddressInput onfocus: the user clicks into the address box.
CellAddressInput_onfocus ==
  /\ stack = <<>>
  /\ ~is_editing_cell
  /\ focus = "grid"
  /\ focus' = "address"
  /\ nav' = [nav EXCEPT !.previous_address = get_current_cell_address(current_cell)]
  /\ UNCHANGED <<cells_map, current_cell, previous_content, is_editing_cell, stack, sheet, hist,
                 calc>>

CellAddressInput_oninput(value) ==
  /\ stack = <<>>
  /\ focus = "address"
  /\ nav' = [nav EXCEPT !.value = value]
  /\ UNCHANGED <<cells_map, current_cell, previous_content, is_editing_cell, focus, stack, sheet,
                 hist, calc>>

\* CellAddressInput onkeydown, Key::Enter: the focus goes back to the grid.
CellAddressInput_onkeydown_Enter ==
  /\ stack = <<>>
  /\ focus = "address"
  /\ current_cell' = Let(cell_address_to_coords(nav.value), LAMBDA new_coords :
                        IF new_coords.some THEN new_coords.v
                        ELSE cell_address_to_coords(nav.previous_address).v)
  /\ focus' = "grid"
  /\ UNCHANGED <<cells_map, previous_content, is_editing_cell, stack, sheet, hist, calc, nav>>

\* CellAddressInput onkeydown, Key::Escape.
CellAddressInput_onkeydown_Escape ==
  /\ stack = <<>>
  /\ focus = "address"
  /\ current_cell' = cell_address_to_coords(nav.previous_address).v
  /\ focus' = "grid"
  /\ UNCHANGED <<cells_map, previous_content, is_editing_cell, stack, sheet, hist, calc, nav>>

(***************************************************************************)
(* CSV export and import (components/header.rs). A line break is the      *)
(* character "\n".                                                         *)
(***************************************************************************)
RECURSIVE FindChar(_, _, _)
FindChar(s, c, i) ==
  IF i > Len(s) THEN 0 ELSE IF s[i] = c THEN i ELSE FindChar(s, c, i + 1)

\* str::split(sep): the pieces between the separators, one piece for "".
RECURSIVE str_split(_, _)
str_split(s, sep) ==
  Let(FindChar(s, sep, 1), LAMBDA i :
    IF i = 0 THEN <<s>>
    ELSE <<SubSeq(s, 1, i - 1)>> \o str_split(SubSeq(s, i + 1, Len(s)), sep))

\* str::lines: the final line ending is optional, "" has no line.
str_lines(s) ==
  Let(str_split(s, "\n"), LAMBDA ps :
    IF ps[Len(ps)] = <<>> THEN SubSeq(ps, 1, Len(ps) - 1) ELSE ps)

\* [T]::join(sep)
RECURSIVE join(_, _)
join(pieces, sep) ==
  IF pieces = <<>> THEN <<>>
  ELSE IF Len(pieces) = 1 THEN pieces[1]
  ELSE pieces[1] \o <<sep>> \o join(Tail(pieces), sep)

MaxOf(S) == IF S = {} THEN 0 ELSE CHOOSE m \in S : \A n \in S : n <= m

\* export_to_csv
export_to_csv(cells) ==
  Let(<<MaxOf({c.row : c \in DOMAIN cells}), MaxOf({c.column : c \in DOMAIN cells})>>,
      LAMBDA count :
        join([row \in 1..(count[1] + 1) |->
                join([col \in 1..(count[2] + 1) |->
                        get_current_cell_content(cells, Coords(row - 1, col - 1))], ",")],
             "\n"))

\* The cells of a CSV text, in the order import_csv meets them.
RECURSIVE csv_cells(_, _)
csv_cells(lines, row) ==
  IF row > Len(lines) THEN <<>>
  ELSE Let(str_split(lines[row], ","), LAMBDA pieces :
         [col \in 1..Len(pieces) |->
            [coords |-> Coords(row - 1, col - 1), content |-> pieces[col]]])
       \o csv_cells(lines, row + 1)

\* import_csv, first pass: every content is written.
RECURSIVE import_csv_write(_, _, _)
import_csv_write(cells, items, i) ==
  IF i > Len(items) THEN cells
  ELSE import_csv_write([entry_or_insert(cells, items[i].coords)
                           EXCEPT ![items[i].coords].content = items[i].content],
                        items, i + 1)

\* import_csv, second pass: every cell of coords_list is recomputed, in order.
RECURSIVE import_csv_update(_, _, _)
import_csv_update(cells, items, i) ==
  IF i > Len(items) THEN cells
  ELSE import_csv_update(update_cell_display(cells, items[i].coords), items, i + 1)

import_csv(cells, csv_text) ==
  Let(csv_cells(str_lines(csv_text), 1), LAMBDA items :
    import_csv_update(import_csv_write(cells, items, 1), items, 1))

(***************************************************************************)
(* Spec: edits made in the grid (double click, type, then Enter, Tab,      *)
(* Escape or a click elsewhere).                                           *)
(***************************************************************************)
Next ==
  \/ \E coords \in EditCoords : GridCells_onclick(coords)
  \/ GridCells_ondoubleclick
  \/ \E value \in Texts(current_cell) : InputCell_oninput(value)
  \/ InputCell_onblur
  \/ \E shift \in BOOLEAN : InputCell_onkeydown_Enter(shift)
  \/ \E shift \in BOOLEAN : InputCell_onkeydown_Tab(shift)
  \/ InputCell_onkeydown_Escape

Spec == Init /\ [][Next]_vars

(***************************************************************************)
(* SpecUI: edits made in the grid (ended by a click elsewhere or Escape)    *)
(* and in the formula bar (ended by Enter, Escape or a click on the grid). *)
(* Typing in the formula bar needs no editor in the grid; a click on a     *)
(* cell of the grid takes the focus from the formula input, which has no   *)
(* onblur handler.                                                         *)
(***************************************************************************)
InitUI ==
  /\ cells_map = <<>>
  /\ current_cell = Coords(0, 0)
  /\ previous_content = <<>>
  /\ is_editing_cell = FALSE
  /\ focus = "grid"
  /\ stack = <<>>
  /\ sheet = "bar"
  /\ hist = HistInit
  /\ calc = CalcIdle
  /\ nav = NavIdle

NextUI ==
  \/ \E coords \in EditCoords : GridCells_onclick(coords)
  \/ GridCells_ondoubleclick
  \/ \E c \in Keys(current_cell) : GridDisplay_onkeydown_Character(c)
  \/ \E value \in Texts(current_cell) : InputCell_oninput(value)
  \/ InputCell_onblur
  \/ InputCell_onkeydown_Escape
  \/ FormulaInput_onfocus
  \/ \E value \in Texts(current_cell) : FormulaInput_oninput(value)
  \/ FormulaInput_onkeydown_Enter
  \/ FormulaInput_onkeydown_Escape

SpecUI == InitUI /\ [][NextUI]_vars

(***************************************************************************)
(* SpecNav: the selection moved by keys, by clicks and by the address box. *)
(***************************************************************************)
InitNav ==
  /\ cells_map = <<>>
  /\ current_cell = Coords(0, 0)
  /\ previous_content = <<>>
  /\ is_editing_cell = FALSE
  /\ focus = "grid"
  /\ stack = <<>>
  /\ sheet = "nav"
  /\ hist = HistInit
  /\ calc = CalcIdle
  /\ nav = NavIdle

NextNav ==
  \/ \E key \in Arrows : GridDisplay_onkeydown_Arrow(key)
  \/ \E shift \in BOOLEAN : GridDisplay_onkeydown_Enter(shift)
  \/ \E shift \in BOOLEAN : GridDisplay_onkeydown_Tab(shift)
  \/ \E coords \in EditCoords : GridCells_onclick(coords)
  \/ CellAddressInput_onfocus
  \/ \E value \in NavAddresses : CellAddressInput_oninput(value)
  \/ CellAddressInput_onkeydown_Enter
  \/ CellAddressInput_onkeydown_Escape

SpecNav == InitNav /\ [][NextNav]_vars

(***************************************************************************)
(* SpecRecompute: the same edits, with update_cell_display followed step   *)
(* by step when the in-grid editor loses the focus: the lookup of the      *)
(* cell, the store of its display value (parser::calculate is one step:    *)
(* it recurses on the finite text and tree of the formula, and its         *)
(* resolver reads a display value), and the return, where the calls the    *)
(* function makes to itself would start. The handler runs to completion:   *)
(* a pending step is always taken.                                         *)
(***************************************************************************)
Frame(coords) == [coords |-> coords, pc |-> "lookup"]
Top == stack[Len(stack)]
Pop == SubSeq(stack, 1, Len(stack) - 1)

RECURSIVE Reverse(_)
Reverse(q) == IF q = <<>> THEN <<>> ELSE Reverse(Tail(q)) \o <<q[1]>>

InputCell_onblur_call ==
  /\ stack = <<>>
  /\ is_editing_cell
  /\ WithinBound(update_cell_display(cells_map, current_cell))
  /\ is_editing_cell' = FALSE
  /\ stack' = <<Frame(current_cell)>>
  /\ UNCHANGED <<cells_map, current_cell, previous_content, focus, sheet, hist, calc, nav>>

\* let Some(content) = cells_map.get(&coords) else { return; }
update_cell_display_lookup ==
  /\ stack # <<>>
  /\ Top.pc = "lookup"
  /\ stack' = IF Top.coords \in DOMAIN cells_map
              THEN Pop \o <<[Top EXCEPT !.pc = "store"]>>
              ELSE Pop
  /\ UNCHANGED <<cells_map, current_cell, previous_content, is_editing_cell, focus, sheet, hist, calc, nav>>

\* display_value = calculate(..) or the content
update_cell_display_store ==
  /\ stack # <<>>
  /\ Top.pc = "store"
  /\ WithinBound(update_cell_display(cells_map, Top.coords))
  /\ cells_map' = update_cell_display(cells_map, Top.coords)
  /\ hist' = HistRecompute(hist, Top.coords, cells_map)
  /\ stack' = Pop \o <<[Top EXCEPT !.pc = "return"]>>
  /\ UNCHANGED <<current_cell, previous_content, is_editing_cell, focus, sheet, calc, nav>>

\* the end of the function: the calls it makes to itself start, the first on top
update_cell_display_return ==
  /\ stack # <<>>
  /\ Top.pc = "return"
  /\ LET calls == nested_calls(cells_map, Top.coords) IN
     /\ Len(Pop) + Len(calls) <= MaxDepth
     /\ stack' = Pop \o Reverse([k \in DOMAIN calls |-> Frame(calls[k])])
  /\ UNCHANGED <<cells_map, current_cell, previous_content, is_editing_cell, focus, sheet, hist, calc, nav>>

NextRecompute ==
  \/ \E coords \in EditCoords : GridCells_onclick(coords)
  \/ GridCells_ondoubleclick
  \/ \E value \in Texts(current_cell) : InputCell_oninput(value)
  \/ InputCell_onblur_call
  \/ update_cell_display_lookup
  \/ update_cell_display_store
  \/ update_cell_display_return

InitRecompute ==
  /\ cells_map = <<>>
  /\ current_cell = Coords(0, 0)
  /\ previous_content = <<>>
  /\ is_editing_cell = FALSE
  /\ focus = "grid"
  /\ stack = <<>>
  /\ sheet = "loop"
  /\ hist = HistInit
  /\ calc = CalcIdle
  /\ nav = NavIdle

\* ENABLED <<update_cell_display_store>>_vars, as a predicate of the state.
StoreEnabled ==
  /\ stack # <<>>
  /\ Top.pc = "store"
  /\ WithinBound(update_cell_display(cells_map, Top.coords))

\* Weak fairness of each step of the call; the one of the store is written
\* out with StoreEnabled.
RecomputeFairness ==
  /\ WF_vars(update_cell_display_lookup)
  /\ WF_vars(update_cell_display_return)
  /\ ([]<>(~StoreEnabled) \/ []<><<update_cell_display_store>>_vars)

SpecRecompute == InitRecompute /\ [][NextRecompute]_vars /\ RecomputeFairness

(***************************************************************************)
(* SpecCalc: parser::calculate and Grid::get_cell_value_by_address called  *)
(* on their own, on a text and a grid drawn at the start. The grids are    *)
(* states of the cell map that edits produce: the values of the resolver   *)
(* of the tests of engine/parser.rs (A1 = 1, B2 = 2), a grid with a zero,  *)
(* a text and an error, a grid with decimals, and the empty grid.          *)
(***************************************************************************)
B2 == Coords(1, 1)
Z1 == Coords(0, 25)

CalcGrids ==
  {<<>>,
   (A1 :> Cell(<<"1">>, <<"1">>)) @@ (B2 :> Cell(<<"2">>, <<"2">>)),
   (A1 :> Cell(<<"0">>, <<"0">>)) @@ (B2 :> Cell(<<"x">>, <<"x">>))
     @@ (C1 :> Cell(<<"=", "1", "/", "0">>, <<"#", "D", "I", "V", "/", "0", "!">>))
     @@ (Z1 :> Cell(<<"3">>, <<"3">>)),
   (A1 :> Cell(<<"1", ".", "5", "0">>, <<"1", ".", "5", "0">>))
     @@ (B2 :> Cell(<<"=", "1", "/", "4">>, <<"0", ".", "2", "5">>))}

\* Formulas that divide, and formulas of the other operators:
\*  "=1/0" "=1/A1" "=1/B2" "=1/Z9" "=5/(2-2)" "=0/0" "=1/-0" "=6/3" "=1/4"
\*  "=2-5" "=0*7" "=0^0" "=2^-1"
DivisionTexts ==
  {
   <<"=", "1", "/", "0">>, <<"=", "1", "/", "A", "1">>, <<"=", "1", "/", "B", "2">>,
   <<"=", "1", "/", "Z", "9">>, <<"=", "5", "/", "(", "2", "-", "2", ")">>,
   <<"=", "0", "/", "0">>, <<"=", "1", "/", "-", "0">>, <<"=", "6", "/", "3">>,
   <<"=", "1", "/", "4">>, <<"=", "2", "-", "5">>, <<"=", "0", "*", "7">>,
   <<"=", "0", "^", "0">>, <<"=", "2", "^", "-", "1">>}

\* Formulas whose value depends on precedence and associativity:
\*  "=3+-12/3" "=(3+-12)/3" "=-A1+B2*2" "= -a1 + B2 * 2" "=10-3-2" "=2^3^2"
\*  "=-2^2" "=8/4/2" "=2+3*4" "=2*3^2" "=(2+3)*4" "=2*(3+4)^2"
PrecedenceTexts ==
  {
   <<"=", "3", "+", "-", "1", "2", "/", "3">>,
   <<"=", "(", "3", "+", "-", "1", "2", ")", "/", "3">>,
   <<"=", "-", "A", "1", "+", "B", "2", "*", "2">>,
   <<"=", " ", "-", "a", "1", " ", "+", " ", "B", "2", " ", "*", " ", "2">>,
   <<"=", "1", "0", "-", "3", "-", "2">>, <<"=", "2", "^", "3", "^", "2">>,
   <<"=", "-", "2", "^", "2">>, <<"=", "8", "/", "4", "/", "2">>,
   <<"=", "2", "+", "3", "*", "4">>, <<"=", "2", "*", "3", "^", "2">>,
   <<"=", "(", "2", "+", "3", ")", "*", "4">>,
   <<"=", "2", "*", "(", "3", "+", "4", ")", "^", "2">>}

\* Calls of the functions of the registry:
\*  "=Sum(1,2,3)" "=avG(1,2,3)" "=avG()" "=sum()" "=Sum(a1, b2 * 3)"
\*  "=avG(a1,b2,3)" "=SUM(4)" "=AVG(1,2)"
FunctionTexts ==
  {
   <<"=", "S", "u", "m", "(", "1", ",", "2", ",", "3", ")">>,
   <<"=", "a", "v", "G", "(", "1", ",", "2", ",", "3", ")">>, <<"=", "a", "v", "G", "(", ")">>,
   <<"=", "s", "u", "m", "(", ")">>,
   <<"=", "S", "u", "m", "(", "a", "1", ",", " ", "b", "2", " ", "*", " ", "3", ")">>,
   <<"=", "a", "v", "G", "(", "a", "1", ",", "b", "2", ",", "3", ")">>,
   <<"=", "S", "U", "M", "(", "4", ")">>, <<"=", "A", "V", "G", "(", "1", ",", "2", ")">>}

\* Calls of names the registry does not hold:
\*  "=FOO(1)" "=foo()" "=SUMM(1,2)" "=FOO(1/0)" "=1+FOO(2)"
UnknownFunctionTexts ==
  {
   <<"=", "F", "O", "O", "(", "1", ")">>, <<"=", "f", "o", "o", "(", ")">>,
   <<"=", "S", "U", "M", "M", "(", "1", ",", "2", ")">>,
   <<"=", "F", "O", "O", "(", "1", "/", "0", ")">>,
   <<"=", "1", "+", "F", "O", "O", "(", "2", ")">>}

\* Texts that are no formula of the grammar:
\*  "=(1" "=1)" "=1+" "=a1:b3" "=1 2" "=3$" "=" "=1+*2" "=SUM(1," "=A"
\*  "3+4" "=+1" "=1.5.2" "=FOO(1"
MalformedTexts ==
  {
   <<"=", "(", "1">>, <<"=", "1", ")">>, <<"=", "1", "+">>, <<"=", "a", "1", ":", "b", "3">>,
   <<"=", "1", " ", "2">>, <<"=", "3", "$">>, <<"=">>, <<"=", "1", "+", "*", "2">>,
   <<"=", "S", "U", "M", "(", "1", ",">>, <<"=", "A">>, <<"3", "+", "4">>, <<"=", "+", "1">>,
   <<"=", "1", ".", "5", ".", "2">>, <<"=", "F", "O", "O", "(", "1">>}

\* Formulas with more than one failing part:
\*  "=AVG(1/0, FOO(1))" "=FOO(FOO(1), 1/0)" "=1/0+FOO(1)"
\*  "=FOO(1)+1/0" "=SUM(1, 1/0, FOO(1))"
OrderingTexts ==
  {
   <<"=", "A", "V", "G", "(", "1", "/", "0", ",", " ", "F", "O", "O", "(", "1", ")", ")">>,
   <<"=", "F", "O", "O", "(", "F", "O", "O", "(", "1", ")", ",", " ", "1", "/", "0", ")">>,
   <<"=", "1", "/", "0", "+", "F", "O", "O", "(", "1", ")">>,
   <<"=", "F", "O", "O", "(", "1", ")", "+", "1", "/", "0">>,
   <<"=", "S", "U", "M", "(", "1", ",", " ", "1", "/", "0", ",", " ", "F", "O", "O", "(", "1", ")", ")">>}

CalcTexts ==
  DivisionTexts \cup PrecedenceTexts \cup FunctionTexts \cup UnknownFunctionTexts
    \cup MalformedTexts \cup OrderingTexts

\* Addresses handed to the resolver:
\*  "A1" "a1" "B2" "Z1" "AA27" "A0" "A01" "1" "A" "" "A1x" "@A1" "?[1"
\*  "$A1" "A 1" "1A" "A1.5" "C1"
CalcAddresses ==
  {
   <<"A", "1">>, <<"a", "1">>, <<"B", "2">>, <<"Z", "1">>, <<"A", "A", "2", "7">>, <<"A", "0">>,
   <<"A", "0", "1">>, <<"1">>, <<"A">>, <<>>, <<"A", "1", "x">>, <<"@", "A", "1">>,
   <<"?", "[", "1">>, <<"$", "A", "1">>, <<"A", " ", "1">>, <<"1", "A">>, <<"A", "1", ".", "5">>,
   <<"C", "1">>}

CalcCall(op, input) ==
  [op |-> op, input |-> input, done |-> FALSE, result |-> None, display |-> <<>>,
   from |-> <<>>]

\* What a call leaves when the program panics.
Aborted == [some |-> FALSE, aborted |-> TRUE]

\* str::to_ascii_lowercase, for the addresses typed in lower case.
to_ascii_lowercase(s) ==
  [i \in DOMAIN s |-> IF IsUpper(s[i]) THEN LowerChars[IndexIn(UpperChars, s[i])] ELSE s[i]]

\* The indices of the round trip: the first and last columns of one, two,
\* three and four letters, and the ends of the range of i32.
RoundTripColumns == {0, 1, 25, 26, 27, 51, 52, 701, 702, 18277, 18278, I32Max - 1, I32Max}
RoundTripRows == {0, 1, 8, 9, 98, 99, 100, I32Max - 1, I32Max}
RoundTripCoords == {Coords(r, c) : r \in RoundTripRows, c \in RoundTripColumns}

\* Cell references with long column and row names:
\*   "AAAAAAAA1"
\*   "FXSHRXW1"
\*   "FXSHRXX1"
\*   "ZZZZZZZ1"
\*   "zzzzzzzzzz9"
\*   "A2147483647"
\*   "A2147483648"
\*   "A99999999999"
\*   "ZZZZZZ1"
\*   "AB12"
LongAddresses ==
  {<<"A", "A", "A", "A", "A", "A", "A", "A", "1">>,
   <<"F", "X", "S", "H", "R", "X", "W", "1">>,
   <<"F", "X", "S", "H", "R", "X", "X", "1">>,
   <<"Z", "Z", "Z", "Z", "Z", "Z", "Z", "1">>,
   <<"z", "z", "z", "z", "z", "z", "z", "z", "z", "z", "9">>,
   <<"A", "2", "1", "4", "7", "4", "8", "3", "6", "4", "7">>,
   <<"A", "2", "1", "4", "7", "4", "8", "3", "6", "4", "8">>,
   <<"A", "9", "9", "9", "9", "9", "9", "9", "9", "9", "9", "9">>,
   <<"Z", "Z", "Z", "Z", "Z", "Z", "1">>,
   <<"A", "B", "1", "2">>}

\* cell_address_to_coords as a build computes it: with overflow checks the
\* program panics where the arithmetic leaves i32, without them it wraps.
cell_address_to_coords_built(address, overflow_checks) ==
  IF overflow_checks /\ cell_address_to_coords_overflows(address) THEN Aborted
  ELSE cell_address_to_coords(address)

InitCalc ==
  /\ cells_map \in CalcGrids
  /\ current_cell = Coords(0, 0)
  /\ previous_content = <<>>
  /\ is_editing_cell = FALSE
  /\ focus = "grid"
  /\ stack = <<>>
  /\ sheet = "calc"
  /\ hist = HistInit
  /\ \/ calc \in {CalcCall("calculate", t) : t \in CalcTexts}
                  \cup {CalcCall("get_cell_value_by_address", a) : a \in CalcAddresses}
                  \cup {CalcCall("cell_address_to_coords", a) : a \in LongAddresses}
     \/ calc \in {CalcCall("get_current_cell_address", c) : c \in RoundTripCoords}
  /\ nav = NavIdle

\* parser::calculate(input, resolver of the grid), and the text that
\* update_cell_display makes of its result.
call_calculate ==
  /\ calc.op = "calculate"
  /\ ~calc.done
  /\ calc' = [calc EXCEPT !.done = TRUE,
                          !.result = calculate(calc.input, cells_map),
                          !.display = display_of(calc.input, cells_map)]
  /\ UNCHANGED <<cells_map, current_cell, previous_content, is_editing_cell, focus, stack,
                 sheet, hist, nav>>

\* grid.get_cell_value_by_address(input)
call_get_cell_value_by_address ==
  /\ calc.op = "get_cell_value_by_address"
  /\ ~calc.done
  /\ calc' = [calc EXCEPT !.done = TRUE,
                          !.result = get_cell_value_by_address(cells_map, calc.input)]
  /\ UNCHANGED <<cells_map, current_cell, previous_content, is_editing_cell, focus, stack,
                 sheet, hist, nav>>

\* get_current_cell_address of the cell at calc.input, and cell_address_to_coords
\* of the address, as it is or typed in lower case (CellAddressInput: onfocus
\* keeps the address, Key::Escape parses it back).
call_get_current_cell_address ==
  /\ calc.op = "get_current_cell_address"
  /\ ~calc.done
  /\ \E overflow_checks \in BOOLEAN, lower \in BOOLEAN :
       calc' = IF overflow_checks /\ get_current_cell_address_overflows(calc.input)
               THEN [calc EXCEPT !.done = TRUE, !.result = Aborted]
               ELSE Let(IF lower THEN to_ascii_lowercase(get_current_cell_address(calc.input))
                        ELSE get_current_cell_address(calc.input), LAMBDA address :
                      [calc EXCEPT !.done = TRUE,
                                   !.display = address,
                                   !.result = cell_address_to_coords_built(address,
                                                                           overflow_checks)])
  /\ UNCHANGED <<cells_map, current_cell, previous_content, is_editing_cell, focus, stack,
                 sheet, hist, nav>>

\* cell_address_to_coords(input), in a build with or without overflow checks
call_cell_address_to_coords ==
  /\ calc.op = "cell_address_to_coords"
  /\ ~calc.done
  /\ \E overflow_checks \in BOOLEAN :
       calc' = [calc EXCEPT !.done = TRUE,
                            !.result = cell_address_to_coords_built(calc.input,
                                                                    overflow_checks)]
  /\ UNCHANGED <<cells_map, current_cell, previous_content, is_editing_cell, focus, stack,
                 sheet, hist, nav>>

NextCalc ==
  \/ call_calculate
  \/ call_get_cell_value_by_address
  \/ call_get_current_cell_address
  \/ call_cell_address_to_coords

SpecCalc == InitCalc /\ [][NextCalc]_vars

(***************************************************************************)
(* SpecCsv: a CSV text is imported into a grid, or a grid is exported and  *)
(* the text imported into the empty grid of a new session.                 *)
(***************************************************************************)
A2 == Coords(1, 0)

CsvGrids ==
  {<<>>,
   (A1 :> Cell(<<"7">>, <<"7">>)),
   (A1 :> Cell(<<"=", "S", "U", "M", "(", "1", ",", "2", ")">>, <<"3">>)),
   (A1 :> Cell(<<"1">>, <<"1">>)) @@ (B1 :> Cell(<<"=", "A", "1", "+", "1">>, <<"2">>)),
   (A1 :> Cell(<<"1">>, <<"1">>)) @@ (B2 :> Cell(<<"2">>, <<"2">>)),
   (B2 :> Cell(<<"x">>, <<"x">>)),
   (A1 :> Cell(<<"a">>, <<"a">>)) @@ (A2 :> Cell(<<>>, <<>>)),
   (A1 :> Cell(<<"5">>, <<"5">>)) @@ (A2 :> Cell(<<"=", "A", "1">>, <<"5">>)),
   (C1 :> Cell(<<"=", "1", "/", "0">>, <<"#", "D", "I", "V", "/", "0", "!">>))}

\* The texts imported:
\*   "5,=A1"
\*   "=B1,5"
\*   "1\n=A1"
\*   "=A2\n3"
\*   ""
\*   "\n"
\*   "a,b\n"
\*   "=1/0"
\*   "x,,y"
\*   "=A1"
\*   "1,2\n=A1+B1,=B2"
\*   "=C1,=A1+1,4"
CsvTexts ==
  {<<"5", ",", "=", "A", "1">>,
   <<"=", "B", "1", ",", "5">>,
   <<"1", "\n", "=", "A", "1">>,
   <<"=", "A", "2", "\n", "3">>,
   <<>>,
   <<"\n">>,
   <<"a", ",", "b", "\n">>,
   <<"=", "1", "/", "0">>,
   <<"x", ",", ",", "y">>,
   <<"=", "A", "1">>,
   <<"1", ",", "2", "\n", "=", "A", "1", "+", "B", "1", ",", "=", "B", "2">>,
   <<"=", "C", "1", ",", "=", "A", "1", "+", "1", ",", "4">>}

InitCsv ==
  /\ cells_map \in CsvGrids
  /\ current_cell = Coords(0, 0)
  /\ previous_content = <<>>
  /\ is_editing_cell = FALSE
  /\ focus = "grid"
  /\ stack = <<>>
  /\ sheet = "csv"
  /\ hist = HistInit
  /\ calc \in {CalcCall("import_csv", t) : t \in CsvTexts} \cup {CalcCall("export_to_csv", <<>>)}
  /\ nav = NavIdle

\* FileToolbar, the file input's onchange: import_csv(grid, csv_text).
FileToolbar_onchange ==
  /\ calc.op = "import_csv"
  /\ ~calc.done
  /\ cells_map' = import_csv(cells_map, calc.input)
  /\ calc' = [calc EXCEPT !.done = TRUE]
  /\ UNCHANGED <<current_cell, previous_content, is_editing_cell, focus, stack, sheet, hist, nav>>

\* FileToolbar, the export button's onclick: export_to_csv(grid).
FileToolbar_onclick ==
  /\ calc.op = "export_to_csv"
  /\ ~calc.done
  /\ calc' = [calc EXCEPT !.done = TRUE, !.result = export_to_csv(cells_map)]
  /\ UNCHANGED <<cells_map, current_cell, previous_content, is_editing_cell, focus, stack,
                 sheet, hist, nav>>

\* The exported text is imported into the empty grid of a new session.
FileToolbar_onchange_exported ==
  /\ calc.op = "export_to_csv"
  /\ calc.done
  /\ cells_map' = import_csv(<<>>, calc.result)
  /\ calc' = [calc EXCEPT !.op = "import_exported", !.input = calc.result,
                          !.from = cells_map]
  /\ UNCHANGED <<current_cell, previous_content, is_editing_cell, focus, stack, sheet, hist, nav>>

NextCsv ==
  \/ FileToolbar_onchange
  \/ FileToolbar_onclick
  \/ FileToolbar_onchange_exported

SpecCsv == InitCsv /\ [][NextCsv]_vars

(***************************************************************************)
(* Texts and predicates the properties are stated with.                    *)
(***************************************************************************)
NameErrorText == <<"#", "N", "A", "M", "E", "?">>
DivErrorText == <<"#", "D", "I", "V", "/", "0", "!">>

Written(c) == c \in DOMAIN cells_map
ContentOf(c) == cells_map[c].content
DisplayOf(c) == cells_map[c].display_value
IsNumberText(t) == f64_from_str(t).some

\* Every write of a content has been followed by the recompute of its cell:
\* in Spec a content is written only while the in-grid editor is mounted.
Committed == ~is_editing_cell

\* A handler that ends an edit of the selected cell by recomputing it.
CommitStep == is_editing_cell /\ ~is_editing_cell'

\* The cells a cell names in its current content, and the cells on a
\* reference cycle of the current contents.
RefsOfCell(c) == IF Written(c) THEN Refs(ContentOf(c)) ELSE {}
RECURSIVE ReachIn(_, _)
ReachIn(S, n) ==
  IF n = 0 THEN S ELSE ReachIn(S \cup UNION {RefsOfCell(c) : c \in S}, n - 1)
InCycle(c) == c \in ReachIn(RefsOfCell(c), Cardinality(EditCoords))

(***************************************************************************)
(* C1. Cascade: with A1 "1", B1 "=A1+1" and C1 "=B1+1" committed (showing  *)
(* 1, 2 and 3), the handler that commits the edit of A1 to "10" leaves B1  *)
(* displaying "11" and C1 displaying "12".                                 *)
(***************************************************************************)
C1_CascadeOnEdit ==
  [][(/\ CommitStep
      /\ current_cell = A1
      /\ Written(A1) /\ Written(B1) /\ Written(C1)
      /\ DisplayOf(A1) = <<"1">>
      /\ ContentOf(B1) = <<"=", "A", "1", "+", "1">> /\ DisplayOf(B1) = <<"2">>
      /\ ContentOf(C1) = <<"=", "B", "1", "+", "1">> /\ DisplayOf(C1) = <<"3">>
      /\ cells_map'[A1].content = <<"1", "0">>)
     => (/\ cells_map'[B1].display_value = <<"1", "1">>
         /\ cells_map'[C1].display_value = <<"1", "2">>)]_vars

(***************************************************************************)
(* C2. Display consistency: when every edit is committed and the contents  *)
(* hold no reference cycle, every cell displays what its content evaluates *)
(* to against the displayed values (a non-formula cell its content).       *)
(***************************************************************************)
C2_DisplayConsistent ==
  (Committed /\ \A c \in EditCoords : ~InCycle(c))
    => \A c \in DOMAIN cells_map : DisplayOf(c) = display_of(ContentOf(c), cells_map)

(***************************************************************************)
(* C3. Cycle detection: when every edit is committed, a cell on a          *)
(* reference cycle (of length one included) displays the circular-         *)
(* reference error: a text that is no number and is neither "#NAME?" nor   *)
(* "#DIV/0!".                                                              *)
(***************************************************************************)
C3_CycleShowsCircularError ==
  Committed =>
    \A c \in EditCoords :
      (Written(c) /\ InCycle(c))
        => /\ ~IsNumberText(DisplayOf(c))
           /\ DisplayOf(c) \notin {<<>>, NameErrorText, DivErrorText}

(***************************************************************************)
(* C4. A reader of a cycle: with A1 "=B1" and B1 "=A1" committed, C1       *)
(* "=A1", just recomputed, displays "0" (A1 resolved as non-numeric).      *)
(***************************************************************************)
C4_ReaderOfCycleShowsZero ==
  (/\ Committed
   /\ hist.last = C1
   /\ Written(A1) /\ Written(B1) /\ Written(C1)
   /\ ContentOf(A1) = <<"=", "B", "1">>
   /\ ContentOf(B1) = <<"=", "A", "1">>
   /\ ContentOf(C1) = <<"=", "A", "1">>)
    => DisplayOf(C1) = <<"0">>

(***************************************************************************)
(* C5. Stale-dependency cleanup: once a cell d no longer names a cell s    *)
(* it named before (B1 "=A1" edited to "=C1"), the handler that commits an *)
(* edit of s leaves the cell d as it was.                                  *)
(***************************************************************************)
C5_StaleNotRecomputed ==
  [][\A s, d \in EditCoords :
       (/\ s # d
        /\ <<s, d>> \in hist.stale
        /\ Written(d)
        /\ CommitStep
        /\ current_cell = s)
       => (d \in DOMAIN cells_map' /\ cells_map'[d] = cells_map[d])]_vars

\* B1 named A1, was edited to "=C1", and then an edit of A1 to "10" was committed.
C5_Witness ==
  /\ Committed
  /\ <<A1, B1>> \in hist.stale
  /\ hist.last = A1
  /\ Written(A1) /\ DisplayOf(A1) = <<"1", "0">>
  /\ Written(B1) /\ ContentOf(B1) = <<"=", "C", "1">>

(***************************************************************************)
(* C6. Dependency edges: after the recompute of a cell, the edges the grid *)
(* records as ending at it are the cells its content names.                *)
(***************************************************************************)
C6_EdgesMatchRefs ==
  \A c \in EditCoords :
    (Committed /\ hist.last = c /\ Written(c))
      => incoming_edges(c) = Refs(ContentOf(c))

(***************************************************************************)
(* C7. Idempotence: recomputing a cell again, when no content and no       *)
(* display value has changed since its last recompute, changes no cell.    *)
(***************************************************************************)
C7_RecomputeIdempotent ==
  [][(/\ CommitStep
      /\ hist.last = current_cell
      /\ Written(current_cell)
      /\ current_cell \in DOMAIN cells_map'
      /\ cells_map'[current_cell].content = ContentOf(current_cell))
     => cells_map' = cells_map]_vars

(***************************************************************************)
(* C8. Termination: every call of update_cell_display started by an edit   *)
(* returns, on sheets whose formulas name each other or themselves too.    *)
(***************************************************************************)
C8_RecomputeReturns == (stack # <<>>) ~> (stack = <<>>)

\* A recompute of a cell on a reference cycle has returned.
C8_Witness ==
  /\ stack = <<>>
  /\ hist.last \in EditCoords
  /\ InCycle(hist.last)
  /\ Written(A1) /\ Written(B1)
  /\ A1 \in Refs(ContentOf(B1)) /\ B1 \in Refs(ContentOf(A1))

\* The sheet with every cell that shows no number (or was never written) showing "0".
Zeroed(cells) ==
  [c \in EditCoords \cup DOMAIN cells |->
     IF c \in DOMAIN cells /\ IsNumberText(cells[c].display_value)
     THEN cells[c] ELSE Cell(<<>>, <<"0">>)]

(***************************************************************************)
(* C9. Errors do not propagate by kind: a formula cell just recomputed     *)
(* displays what its formula evaluates to with every referenced cell that  *)
(* shows no number read as 0; with A1 showing "#DIV/0!", "=A1+1" shows "1".*)
(***************************************************************************)
C9_NonNumericReadAsZero ==
  \A c \in EditCoords :
    (/\ Committed
     /\ hist.last = c
     /\ Written(c)
     /\ starts_with_eq(ContentOf(c))
     /\ c \notin Refs(ContentOf(c)))
      => /\ DisplayOf(c) = display_of(ContentOf(c), Zeroed(cells_map))
         /\ (/\ ContentOf(c) = <<"=", "A", "1", "+", "1">>
             /\ Written(A1)
             /\ ~IsNumberText(DisplayOf(A1)))
              => DisplayOf(c) = <<"1">>

C9_Witness ==
  /\ Committed
  /\ hist.last = B1
  /\ Written(A1) /\ DisplayOf(A1) = DivErrorText
  /\ Written(B1) /\ ContentOf(B1) = <<"=", "A", "1", "+", "1">>
  /\ DisplayOf(B1) = <<"1">>

\* Addresses of written and of never written cells, in both cases of letters.
RefAddresses ==
  {[text |-> <<"A", "1">>, coords |-> A1], [text |-> <<"b", "1">>, coords |-> B1],
   [text |-> <<"C", "1">>, coords |-> C1], [text |-> <<"D", "1">>, coords |-> Coords(0, 3)],
   [text |-> <<"A", "A", "2">>, coords |-> Coords(1, 26)]}

(***************************************************************************)
(* C10. A cell reference never fails: in every state, the formula made of  *)
(* one address evaluates to the number the addressed cell displays, and to *)
(* 0 when that cell was never written or displays no number.               *)
(***************************************************************************)
C10_ReferenceNeverFails ==
  \A a \in RefAddresses :
    LET r == calculate(<<"=">> \o a.text, cells_map) IN
    /\ r.ok
    /\ IF Written(a.coords) /\ IsNumberText(DisplayOf(a.coords))
       THEN f64_to_string(r.val) = DisplayOf(a.coords)
       ELSE r.val = Zero

\* A cell showing a number, a cell never written and a cell showing a text.
C10_Witness ==
  /\ Written(A1) /\ DisplayOf(A1) = <<"1", "0">>
  /\ ~Written(B1)
  /\ Written(C1) /\ DisplayOf(C1) = <<"x">>

(***************************************************************************)
(* Claims about the evaluator, checked under SpecCalc.                     *)
(***************************************************************************)
\* The call of calculate has returned.
Calculated == calc.op = "calculate" /\ calc.done

\* The text parses as a formula of the grammar.
Parses(input) == CellFormulaParser_parse(input).ok

\* The expression tree of a text that parses.
AstOf(input) == parse_expr(CellFormulaParser_parse(input).pairs)

\* C11: a division whose divisor evaluates to exactly 0 (a literal 0, a cell
\* whose value is 0, an absent or a non-numeric cell) yields DivisionByZero
\* and the display "#DIV/0!"; a division by anything else, and + - * ^ on
\* operands that evaluate, yield a number.
C11_DivisionByZero ==
  (Calculated /\ Parses(calc.input)) =>
    Let(AstOf(calc.input), LAMBDA e :
      e.kind = "BinaryOp" =>
        Let(<<eval_expr(e.lhs, cells_map), eval_expr(e.rhs, cells_map)>>, LAMBDA lr :
          (lr[1].ok /\ lr[2].ok) =>
            IF e.op = "Div" /\ lr[2].val = Zero
            THEN calc.result = Err("DivBy0") /\ calc.display = DivErrorText
            ELSE calc.result.ok))

\* "=1/B2" has been calculated on a grid whose B2 shows "x", and shows "#DIV/0!".
C11_Witness ==
  /\ Calculated
  /\ calc.input = <<"=", "1", "/", "B", "2">>
  /\ B2 \in DOMAIN cells_map
  /\ cells_map[B2].display_value = <<"x">>
  /\ calc.display = DivErrorText

\* The values of the tests of calculate_basic_math and of the formulas that
\* tell the precedences and the associativities apart, with A1 = 1, B2 = 2:
\*   3+-12/3          = -1
\*   (3+-12)/3        = -3
\*   -A1+B2*2         = 3
\*   10-3-2           = 5
\*   2^3^2            = 512
\*   -2^2             = 4
\*   8/4/2            = 1
\*   2+3*4            = 14
\*   2*3^2            = 18
\*   (2+3)*4          = 20
\*   2*(3+4)^2        = 98
PrecedenceValues ==
  {<<<<"=", "3", "+", "-", "1", "2", "/", "3">>, -1>>,
   <<<<"=", "(", "3", "+", "-", "1", "2", ")", "/", "3">>, -3>>,
   <<<<"=", "-", "A", "1", "+", "B", "2", "*", "2">>, 3>>,
   <<<<"=", " ", "-", "a", "1", " ", "+", " ", "B", "2", " ", "*", " ", "2">>, 3>>,
   <<<<"=", "1", "0", "-", "3", "-", "2">>, 5>>,
   <<<<"=", "2", "^", "3", "^", "2">>, 512>>,
   <<<<"=", "-", "2", "^", "2">>, 4>>,
   <<<<"=", "8", "/", "4", "/", "2">>, 1>>,
   <<<<"=", "2", "+", "3", "*", "4">>, 14>>,
   <<<<"=", "2", "*", "3", "^", "2">>, 18>>,
   <<<<"=", "(", "2", "+", "3", ")", "*", "4">>, 20>>,
   <<<<"=", "2", "*", "(", "3", "+", "4", ")", "^", "2">>, 98>>}

\* The resolver answers as the one of the tests: A1 = 1 and B2 = 2.
ResolvesAsInTests ==
  /\ get_cell_value_by_address(cells_map, <<"A", "1">>) = Some(Num(1))
  /\ get_cell_value_by_address(cells_map, <<"B", "2">>) = Some(Num(2))

\* C12: + and - bind loosest, then * and /, then ^, unary minus tighter
\* than ^; + - * / associate to the left and ^ to the right; parentheses
\* override: with A1 = 1 and B2 = 2 every formula of PrecedenceValues
\* evaluates to the value listed with it.
C12_PrecedenceAndAssociativity ==
  (Calculated /\ ResolvesAsInTests) =>
    \A p \in PrecedenceValues : calc.input = p[1] => calc.result = Ok(Num(p[2]))

\* "=2^3^2" has been calculated with A1 = 1 and B2 = 2, and is 512.
C12_Witness ==
  /\ Calculated
  /\ ResolvesAsInTests
  /\ calc.input = <<"=", "2", "^", "3", "^", "2">>
  /\ calc.result = Ok(Num(512))

\* The results of the tests of calculate_functions, with A1 = 1, B2 = 2:
\*   Sum(1,2,3)         -> Ok(Num(6))
\*   avG(1,2,3)         -> Ok(Num(2))
\*   avG()              -> Err("DivBy0")
\*   Sum(a1, b2 * 3)    -> Ok(Num(7))
\*   avG(a1,b2,3)       -> Ok(Num(2))
\*   sum()              -> Ok(Zero)
\*   SUM(4)             -> Ok(Num(4))
\*   AVG(1,2)           -> Ok(Rat(3, 2))
FunctionValues ==
  {<<<<"=", "S", "u", "m", "(", "1", ",", "2", ",", "3", ")">>,
     Ok(Num(6))>>,
   <<<<"=", "a", "v", "G", "(", "1", ",", "2", ",", "3", ")">>,
     Ok(Num(2))>>,
   <<<<"=", "a", "v", "G", "(", ")">>,
     Err("DivBy0")>>,
   <<<<"=", "S", "u", "m", "(", "a", "1", ",", " ", "b", "2", " ", "*", " ", "3", ")">>,
     Ok(Num(7))>>,
   <<<<"=", "a", "v", "G", "(", "a", "1", ",", "b", "2", ",", "3", ")">>,
     Ok(Num(2))>>,
   <<<<"=", "s", "u", "m", "(", ")">>,
     Ok(Zero)>>,
   <<<<"=", "S", "U", "M", "(", "4", ")">>,
     Ok(Num(4))>>,
   <<<<"=", "A", "V", "G", "(", "1", ",", "2", ")">>,
     Ok(Rat(3, 2))>>}

\* The arithmetic sum of a list of numbers, first to last.
RECURSIVE Total(_)
Total(vs) == IF vs = <<>> THEN Zero ELSE f64_add(vs[1], Total(Tail(vs)))

\* What the library owes for a call of SUM or AVG on the values vs.
LibraryResult(name, vs) ==
  IF name = <<"S", "U", "M">> THEN Ok(Total(vs))
  ELSE IF vs = <<>> THEN Err("DivBy0")
  ELSE Ok(f64_div(Total(vs), Num(Len(vs))))

\* C13: SUM is the arithmetic sum of its arguments and 0 for none; AVG is
\* their mean and fails with DivisionByZero for none; names match whatever
\* their case; arguments are any sub-expressions, references included
\* (SUM(A1, B2*3) = 7 with A1 = 1, B2 = 2).
C13_FunctionLibrary ==
  (Calculated /\ Parses(calc.input)) =>
    /\ ResolvesAsInTests =>
         \A p \in FunctionValues : calc.input = p[1] => calc.result = p[2]
    /\ Let(AstOf(calc.input), LAMBDA e :
         (/\ e.kind = "Function"
          /\ to_uppercase(e.name) \in {<<"S", "U", "M">>, <<"A", "V", "G">>}) =>
           Let([k \in DOMAIN e.args |-> eval_expr(e.args[k], cells_map)], LAMBDA rs :
             (\A k \in DOMAIN rs : rs[k].ok) =>
               calc.result = LibraryResult(to_uppercase(e.name), [k \in DOMAIN rs |-> rs[k].val])))

\* "=Sum(a1, b2 * 3)" has been calculated with A1 = 1 and B2 = 2, and is 7.
C13_Witness ==
  /\ Calculated
  /\ ResolvesAsInTests
  /\ calc.input = <<"=", "S", "u", "m", "(", "a", "1", ",", " ", "b", "2", " ", "*", " ", "3", ")">>
  /\ calc.result = Ok(Num(7))

\* The names the registry holds.
RegistryNames == {<<"S", "U", "M">>, <<"A", "V", "G">>}

\* C14: a call of a name that the registry does not hold, "=FOO(1)" for
\* one, parses, and fails in evaluation with UnknownFunction, never with
\* ParsingError; the cell then displays "#NAME?".
C14_UnknownFunction ==
  Calculated =>
    /\ calc.input \in {<<"=", "F", "O", "O", "(", "1", ")">>, <<"=", "f", "o", "o", "(", ")">>,
                       <<"=", "S", "U", "M", "M", "(", "1", ",", "2", ")">>,
                       <<"=", "1", "+", "F", "O", "O", "(", "2", ")">>} =>
         /\ Parses(calc.input)
         /\ calc.result = Err("UnknownFunction")
         /\ calc.display = NameErrorText
    /\ Parses(calc.input) =>
         Let(AstOf(calc.input), LAMBDA e :
           (/\ e.kind = "Function"
            /\ to_uppercase(e.name) \notin RegistryNames
            /\ \A k \in DOMAIN e.args : eval_expr(e.args[k], cells_map).ok) =>
             calc.result = Err("UnknownFunction") /\ calc.display = NameErrorText)

\* "=FOO(1)" has been calculated: UnknownFunction, shown as "#NAME?".
C14_Witness ==
  /\ Calculated
  /\ calc.input = <<"=", "F", "O", "O", "(", "1", ")">>
  /\ Parses(calc.input)
  /\ calc.result = Err("UnknownFunction")
  /\ calc.display = NameErrorText

\* C15: a malformed formula text (unbalanced parentheses, unknown tokens,
\* trailing garbage, the range syntax "=a1:b3") makes calculate return
\* ParsingError and the cell display "#NAME?"; a text that does not parse
\* never yields a number, so none computed from a prefix that parses.
C15_MalformedIsParsingError ==
  Calculated =>
    /\ (calc.input \in MalformedTexts /\ starts_with_eq(calc.input)) =>
         /\ ~Parses(calc.input)
         /\ calc.display = NameErrorText
    /\ ~Parses(calc.input) => calc.result = Err("ParsingError")

\* "=1 2", whose prefix "=1" parses, has been calculated: ParsingError, "#NAME?".
C15_Witness ==
  /\ Calculated
  /\ calc.input = <<"=", "1", " ", "2">>
  /\ Parses(SubSeq(calc.input, 1, 2))
  /\ calc.result = Err("ParsingError")
  /\ calc.display = NameErrorText

\* The call of get_cell_value_by_address has returned.
Resolved == calc.op = "get_cell_value_by_address" /\ calc.done

\* One or more letters followed by one or more digits.
WellFormedAddress(a) ==
  \E k \in 1..(Len(a) - 1) :
    /\ \A i \in 1..k : IsAlpha(a[i])
    /\ \A i \in (k + 1)..Len(a) : IsDigit(a[i])

\* C19: address resolution returns nothing for every address that is not
\* one or more letters followed by one or more digits, for every address
\* of a cell never written and for every address of a cell whose display
\* text is no number; otherwise it returns the number the cell displays.
C19_ResolutionValidatesAddress ==
  Resolved =>
    IF ~WellFormedAddress(calc.input) THEN calc.result = None
    ELSE Let(cell_address_to_coords(calc.input), LAMBDA coords :
           /\ coords.some
           /\ calc.result = (IF coords.v \in DOMAIN cells_map
                             THEN f64_from_str(cells_map[coords.v].display_value)
                             ELSE None))

\* C20: the formula errors are the four kinds ParsingError, DivisionByZero,
\* UnknownFunction and CircularReference, each with a fixed display string:
\* "#NAME?" for ParsingError and UnknownFunction, "#DIV/0!" for
\* DivisionByZero, and for CircularReference a string that is neither; an
\* evaluation that fails stores exactly the string of its error as the
\* display value.
C20_FourErrorKinds ==
  /\ (Calculated /\ starts_with_eq(calc.input) /\ ~calc.result.ok) =>
       /\ calc.result.err \in FormulaError
       /\ calc.display = FormulaError_to_string(calc.result.err)
  /\ FormulaError_to_string("ParsingError") = NameErrorText
  /\ FormulaError_to_string("UnknownFunction") = NameErrorText
  /\ FormulaError_to_string("DivBy0") = DivErrorText
  /\ FormulaError = {"ParsingError", "DivBy0", "UnknownFunction", "CircularReference"}
  /\ FormulaError_to_string("CircularReference") \notin {NameErrorText, DivErrorText}

\* The results the claim lists for formulas with more than one failing part.
OrderingValues ==
  {<<<<"=", "F", "O", "O", "(", "1", "/", "0", ")">>, "DivBy0">>,
   <<<<"=", "A", "V", "G", "(", "1", "/", "0", ",", " ", "F", "O", "O", "(", "1", ")", ")">>,
     "DivBy0">>,
   <<<<"=", "F", "O", "O", "(", "F", "O", "O", "(", "1", ")", ",", " ", "1", "/", "0", ")">>,
     "UnknownFunction">>,
   <<<<"=", "1", "/", "0", "+", "F", "O", "O", "(", "1", ")">>, "DivBy0">>,
   <<<<"=", "F", "O", "O", "(", "1", ")", "+", "1", "/", "0">>, "UnknownFunction">>}

\* C21: a function call evaluates its arguments left to right before it
\* looks the name up, and the first argument that fails is the result
\* ("=FOO(1/0)" and "=AVG(1/0, FOO(1))" give DivisionByZero); a binary
\* operator reports the error of its left operand before that of its right.
C21_ErrorOrdering ==
  (Calculated /\ Parses(calc.input)) =>
    /\ \A p \in OrderingValues : calc.input = p[1] => calc.result = Err(p[2])
    /\ Let(AstOf(calc.input), LAMBDA e :
         /\ e.kind = "Function" =>
              Let([k \in DOMAIN e.args |-> eval_expr(e.args[k], cells_map)], LAMBDA rs :
                \A k \in DOMAIN rs :
                  (~rs[k].ok /\ \A j \in 1..(k - 1) : rs[j].ok) => calc.result = rs[k])
         /\ e.kind = "BinaryOp" =>
              Let(<<eval_expr(e.lhs, cells_map), eval_expr(e.rhs, cells_map)>>, LAMBDA lr :
                /\ ~lr[1].ok => calc.result = lr[1]
                /\ (lr[1].ok /\ ~lr[2].ok) => calc.result = lr[2]))

\* "=AVG(1/0, FOO(1))" has been calculated: DivisionByZero.
C21_Witness ==
  /\ Calculated
  /\ calc.input = <<"=", "A", "V", "G", "(", "1", "/", "0", ",", " ", "F", "O", "O", "(", "1", ")", ")">>
  /\ calc.result = Err("DivBy0")

(***************************************************************************)
(* Claims about the recompute of a cell, checked under Spec.               *)
(***************************************************************************)
\* C16: a cell just recomputed whose content is "=" followed by exactly
\* one cell address displays the display text of the addressed cell
\* verbatim, a text that is no number and an error string included.
C16_DirectReferenceVerbatim ==
  \A c \in EditCoords : \A a \in RefAddresses :
    (/\ Committed
     /\ hist.last = c
     /\ Written(c)
     /\ ContentOf(c) = <<"=">> \o a.text
     /\ a.coords # c
     /\ Written(a.coords))
      => DisplayOf(c) = DisplayOf(a.coords)

\* C18: the recompute of a cell whose content does not start with "="
\* leaves the cell displaying its content exactly, and changes the content
\* and the display value of no other cell.
C18_NonFormulaVerbatim ==
  [][(/\ CommitStep
      /\ current_cell \in DOMAIN cells_map'
      /\ ~starts_with_eq(cells_map'[current_cell].content))
       => /\ cells_map'[current_cell].display_value = cells_map'[current_cell].content
          /\ DOMAIN cells_map' \subseteq DOMAIN cells_map \cup {current_cell}
          /\ \A c \in DOMAIN cells_map \ {current_cell} :
               c \in DOMAIN cells_map' /\ cells_map'[c] = cells_map[c]]_vars

\* A1 has just been recomputed with the content "10" and displays "10";
\* B1, "=A1+1", still displays the "2" it had.
C18_Witness ==
  /\ Committed
  /\ hist.last = A1
  /\ Written(A1) /\ ContentOf(A1) = <<"1", "0">> /\ DisplayOf(A1) = <<"1", "0">>
  /\ Written(B1) /\ ContentOf(B1) = <<"=", "A", "1", "+", "1">> /\ DisplayOf(B1) = <<"2">>

\* A handler of the in-grid editor that recomputes the selected cell as it is.
RecomputeSelected ==
  \/ InputCell_onblur
  \/ \E shift \in BOOLEAN : InputCell_onkeydown_Enter(shift)
  \/ \E shift \in BOOLEAN : InputCell_onkeydown_Tab(shift)

\* C22: the recompute of a coordinate that has no entry in the cell map is
\* a no-op: no cell is created there, and no cell's content or display
\* value changes.
C22_RecomputeOfAbsentIsNoOp ==
  [][(RecomputeSelected /\ current_cell \notin DOMAIN cells_map)
       => cells_map' = cells_map]_vars

\* Enter has closed the editor on A1, never written, and moved the
\* selection one row down: A1 still has no entry.
C22_Witness ==
  /\ Committed
  /\ current_cell = Coords(1, 0)
  /\ ~Written(A1)
  /\ Written(B1)

(***************************************************************************)
(* Claims about the input paths, checked under SpecUI.                     *)
(***************************************************************************)
\* C17: every write of a raw text into a cell is followed by the recompute
\* of that cell: in every state, a cell that is not the selected cell and
\* whose content starts with "=" does not display its raw formula text,
\* whether the in-grid editor or the formula bar wrote the content.
C17_WriteFollowedByRecompute ==
  \A c \in EditCoords :
    (/\ Written(c)
     /\ c # current_cell
     /\ starts_with_eq(ContentOf(c)))
      => DisplayOf(c) # ContentOf(c)

\* Escape is pressed in the in-grid editor or in the formula bar.
EscapeStep == InputCell_onkeydown_Escape \/ FormulaInput_onkeydown_Escape

\* C23: Escape, pressed while a cell is edited in the in-grid editor or in
\* the formula bar, sets the content of that cell back to exactly the
\* content it had when that edit began, and recomputes its display value
\* from it, whatever cells were edited earlier.
C23_EscapeRestores ==
  [][EscapeStep =>
       /\ current_cell \in DOMAIN cells_map'
       /\ cells_map'[current_cell].content = hist.begun
       /\ cells_map'[current_cell].display_value = display_of(hist.begun, cells_map)]_vars

(***************************************************************************)
(* Claims about navigation, checked under SpecNav.                         *)
(***************************************************************************)
\* C24: the selection stays on the grid: after any sequence of navigation
\* operations (arrow keys, Enter, Tab with or without Shift, a click on a
\* cell, an address typed in the address box followed by Enter or Escape)
\* the current cell has 0 <= row < CELL_ROWS and 0 <= column < CELL_COLUMNS.
C24_SelectionOnGrid ==
  /\ 0 <= current_cell.row /\ current_cell.row < CELL_ROWS
  /\ 0 <= current_cell.column /\ current_cell.column < CELL_COLUMNS

(***************************************************************************)
(* Claims about CSV import and export, checked under SpecCsv.              *)
(***************************************************************************)
\* The coordinates a CSV text has a cell for.
ImportedCoords(csv_text) ==
  Let(csv_cells(str_lines(csv_text), 1), LAMBDA items :
    {items[i].coords : i \in DOMAIN items})

\* C25: after import_csv, every imported cell whose content starts with
\* "=" displays the evaluation of its content against the final display
\* values of the cells it references, whether they come before or after
\* it in row-major order.
C25_ImportConsistent ==
  (calc.op = "import_csv" /\ calc.done) =>
    \A c \in ImportedCoords(calc.input) :
      (Written(c) /\ starts_with_eq(ContentOf(c)))
        => DisplayOf(c) = display_of(ContentOf(c), cells_map)

\* C26: for a grid whose contents hold no line break, importing the text
\* of export_to_csv into an empty grid gives every coordinate the content
\* it has in the exported grid, "=SUM(1,2)" included.
C26_CsvRoundTrip ==
  calc.op = "import_exported" =>
    \A c \in DOMAIN calc.from \cup DOMAIN cells_map :
      get_current_cell_content(cells_map, c) = get_current_cell_content(calc.from, c)

(***************************************************************************)
(* Claims about addresses, checked under SpecCalc.                         *)
(***************************************************************************)
RoundTripped == calc.op = "get_current_cell_address" /\ calc.done

\* C27 as stated: for every column index c >= 0 and row r >= 0, the address
\* column_index_to_letter(c) followed by r + 1 is parsed back by
\* cell_address_to_coords to exactly (r, c), in upper and in lower case.
C27_AddressRoundTrip_AsStated ==
  RoundTripped => calc.result = Some(calc.input)

\* C27: for every column index 0 <= c < 2^31 - 1 and row 0 <= r < 2^31 - 1,
\* the address column_index_to_letter(c) followed by r + 1 is parsed back
\* by cell_address_to_coords to exactly (r, c), and so is the same address
\* written in lower-case letters.
C27_AddressRoundTrip ==
  (RoundTripped /\ calc.input.row < I32Max /\ calc.input.column < I32Max)
    => calc.result = Some(calc.input)

\* The round trip of AAA100, typed aaa100.
C27_Witness ==
  /\ RoundTripped
  /\ calc.input = Coords(99, 702)
  /\ calc.display = <<"a", "a", "a", "1", "0", "0">>
  /\ calc.result = Some(Coords(99, 702))

\* C28: for every cell reference the grammar accepts, however long its
\* column or row name, computing the coordinates stays within the range
\* of a 32-bit signed integer or returns nothing, and never aborts.
C28_NoOverflow ==
  (calc.op = "cell_address_to_coords" /\ calc.done /\ Parses(<<"=">> \o calc.input)) =>
    /\ calc.result # Aborted
    /\ ~cell_address_to_coords_overflows(calc.input)

====
